---- MODULE Spec2Model ----
(***************************************************************************)
(* State-machine model of the segmented download engine of                 *)
(* media-stream-inspector (src/offscreen.js): the playlist parser, the      *)
(* variant selection, the per-segment fetch with retry, the batch loop of   *)
(* executeHlsDownload, the assembly and the completion handoff.             *)
(*                                                                         *)
(* Every action is the code that runs between two suspension points         *)
(* (await) of the JavaScript event loop, which executes it atomically.      *)
(***************************************************************************)
EXTENDS Integers, Sequences, FiniteSets, TLC

\* ---------------------------------------------------------------- constants

CONCURRENCY == 8
MAX_RETRIES == 3
RETRY_DELAY_MS == 1000
REVOKE_DELAY_MS == 30000
BG_REVOKE_DELAY_MS == 5000
THROTTLE_MS == 1000
RECENT_URLS_MAX == 200
HISTORY_MAX == 100
PROGRESS_CAP == 95

\* ------------------------------------------------------------------- bounds

\* Largest segment count of a playlist (more than one full batch).
MaxSegs == 9
\* Largest segment count of a short playlist.
MaxSmallSegs == 3
\* Faulty answers (non-ok fetch answers, decrypt failures) the network gives
\* to the segments of a playlist of more than one segment.
MaxFaults == 1
\* Largest number of variants of a master playlist.
MaxVariants == 3
\* Largest segment payload, in cipher blocks.
MaxSegLen == 2
\* Direct download: most chunks of a body, largest chunk, largest
\* Content-Length.
MaxChunks == 3
MaxChunkLen == 2
MaxContentLength == 3
\* The clock runs for MaxTicks steps of 5000 ms.
MaxTicks == 8
\* Most key tags of a playlist as written, and most comment or blank lines
\* between a stream-info tag and the URL line that follows it.
MaxKeyTags == 2
MaxGap == 1
\* Downloads started through the background page.
MaxDownloads == 3
\* URLs requested that the throttle map has not seen, and the steps of
\* THROTTLE_MS / 2 the clock makes between requests.
MaxNewUrls == 2
MaxElapses == 5

\* ------------------------------------------------------------------ options

\* An optional value: <<>> is absent (null / undefined), <<x>> is x.
None == <<>>
Some(x) == <<x>>
IsSome(o) == o /= <<>>
Get(o) == o[1]

Min(a, b) == IF a < b THEN a ELSE b

\* --------------------------------------------------------------------- URLs

\* An absolute URL is a directory (a tuple naming it) and a file; a relative
\* reference has the empty directory.  new URL(ref, base).href keeps an absolute reference and
\* puts a relative one into the directory of its base.
Url(dir, kind, k) == [dir |-> dir, file |-> <<kind, k>>]
Rel(kind, k) == Url(<<>>, kind, k)

\* Resolution that puts every relative reference on the job's first host.
ResolveAgainstOrigin(ref, baseUrl) ==
  IF ref.dir = <<>> THEN [dir |-> <<"origin">>, file |-> ref.file] ELSE ref

ResolveUrl(ref, baseUrl) ==
  IF ref.dir = <<>> THEN [dir |-> baseUrl.dir, file |-> ref.file] ELSE ref

\* ----------------------------------------------------------- playlist lines

\* One trimmed line of a playlist.  tag is the text the line starts with:
\* a tag name as written, "#" for any other comment line, "" for an empty
\* line and "uri" for a line that does not start with '#'.
Line(tag) ==
  [tag |-> tag, bandwidth |-> None, resolution |-> None, seq |-> None,
   method |-> None, uri |-> None, iv |-> None, ref |-> Rel("none", 0)]

StreamInfLine(bw, res) ==
  [Line("#EXT-X-STREAM-INF") EXCEPT !.bandwidth = bw, !.resolution = res]
MediaSequenceLine(n) == [Line("#EXT-X-MEDIA-SEQUENCE") EXCEPT !.seq = Some(n)]
KeyLine(method, uri, iv) ==
  [Line("#EXT-X-KEY") EXCEPT !.method = method, !.uri = uri, !.iv = iv]
UriLine(ref) == [Line("uri") EXCEPT !.ref = ref]
CommentLine == Line("#")
BlankLine == Line("")

\* line.startsWith('#')
StartsWithHash(line) == line.tag \notin {"", "uri"}
\* the truthiness of a line: the empty string is falsy
NonEmpty(line) == line.tag /= ""

\* ------------------------------------------------------------------ parser

EmptyManifest ==
  [isMaster |-> FALSE, variants |-> <<>>, segments |-> <<>>,
   encryption |-> None, mediaSequence |-> 0]

\* The "#EXT-X-STREAM-INF" branch of one loop iteration: the variant is
\* recorded only when the line right after the tag exists, is not empty and
\* does not start with '#'.
HasVariantUrl(lines, i) ==
  /\ i + 1 <= Len(lines)
  /\ NonEmpty(lines[i + 1])
  /\ ~StartsWithHash(lines[i + 1])

ParseStreamInf(result, lines, i, baseUrl) ==
  IF lines[i].tag /= "#EXT-X-STREAM-INF" THEN result
  ELSE IF HasVariantUrl(lines, i)
  THEN [result EXCEPT
          !.isMaster = TRUE,
          !.variants = Append(@,
             [bandwidth |-> IF IsSome(lines[i].bandwidth)
                            THEN Get(lines[i].bandwidth) ELSE 0,
              resolution |-> IF IsSome(lines[i].resolution)
                             THEN Get(lines[i].resolution) ELSE "unknown",
              url |-> ResolveUrl(lines[i + 1].ref, baseUrl)])]
  ELSE [result EXCEPT !.isMaster = TRUE]

ParseMediaSequence(result, line) ==
  IF line.tag = "#EXT-X-MEDIA-SEQUENCE" /\ IsSome(line.seq)
  THEN [result EXCEPT !.mediaSequence = Get(line.seq)]
  ELSE result

\* The "#EXT-X-KEY" branch that keeps the first key it saw.
ParseKeyKeepsFirst(result, line, baseUrl) ==
  IF line.tag /= "#EXT-X-KEY" \/ IsSome(result.encryption) THEN result
  ELSE IF line.method = Some("AES-128") /\ IsSome(line.uri)
  THEN [result EXCEPT !.encryption =
          Some([method |-> "AES-128",
                keyUrl |-> ResolveUrl(Get(line.uri), baseUrl),
                iv |-> line.iv])]
  ELSE result

\* The "#EXT-X-KEY" branch: the method is compared with === against
\* 'AES-128' and 'NONE'; a missing METHOD attribute counts as 'NONE'.
ParseKey(result, line, baseUrl) ==
  IF line.tag /= "#EXT-X-KEY" THEN result
  ELSE LET method == IF IsSome(line.method) THEN Get(line.method) ELSE "NONE"
       IN  IF method = "AES-128" /\ IsSome(line.uri)
           THEN [result EXCEPT !.encryption =
                   Some([method |-> method,
                         keyUrl |-> ResolveUrl(Get(line.uri), baseUrl),
                         iv |-> line.iv])]
           ELSE IF method = "NONE"
           THEN [result EXCEPT !.encryption = None]
           ELSE result

ParseSegment(result, line, baseUrl) ==
  IF NonEmpty(line) /\ ~StartsWithHash(line)
  THEN [result EXCEPT !.segments = Append(@, ResolveUrl(line.ref, baseUrl))]
  ELSE result

\* One iteration of the for loop, for the line at index i (1-based here).
ParseLine(result, lines, i, baseUrl) ==
  ParseSegment(
    ParseKey(
      ParseMediaSequence(
        ParseStreamInf(result, lines, i, baseUrl), lines[i]),
      lines[i], baseUrl),
    lines[i], baseUrl)

\* The loop index after the iteration: the consumed variant URL is skipped.
NextIndex(lines, i) ==
  IF lines[i].tag = "#EXT-X-STREAM-INF" /\ HasVariantUrl(lines, i)
  THEN i + 2 ELSE i + 1

RECURSIVE ParseFrom(_, _, _, _)
ParseFrom(result, lines, i, baseUrl) ==
  IF i > Len(lines) THEN result
  ELSE ParseFrom(ParseLine(result, lines, i, baseUrl), lines,
                 NextIndex(lines, i), baseUrl)

parseM3u8(text, baseUrl) == ParseFrom(EmptyManifest, text, 1, baseUrl)

\* -------------------------------------------------------- variant selection

\* Array.prototype.sort with the comparator (a, b) => b.bandwidth -
\* a.bandwidth: a stable sort, a before b when the comparator is not positive.
CompareVariantsAscending(a, b) == a.bandwidth - b.bandwidth
CompareVariants(a, b) == b.bandwidth - a.bandwidth

\* Stable insertion of v into the sorted sequence s: v goes after every
\* element it does not strictly precede.
RECURSIVE InsertSorted(_, _)
InsertSorted(s, v) ==
  IF s = <<>> THEN <<v>>
  ELSE IF CompareVariants(s[Len(s)], v) <= 0 THEN Append(s, v)
  ELSE Append(InsertSorted(SubSeq(s, 1, Len(s) - 1), v), s[Len(s)])

RECURSIVE SortVariants(_)
SortVariants(vs) ==
  IF vs = <<>> THEN <<>>
  ELSE InsertSorted(SortVariants(SubSeq(vs, 1, Len(vs) - 1)), vs[Len(vs)])

SelectBest(variants) == SortVariants(variants)[1]

\* ------------------------------------------------------------------- state

VARIABLES
  \* the network, fixed when the job starts
  topText,       \* playlist text served at the job's URL
  mediaText,     \* playlist text served at every variant URL (of a master)
  lenOffset,     \* segment k has (k + lenOffset) % (MaxSegLen + 1) blocks
  jobKind,       \* "hls" (executeUltimateDownload) or "direct" (executeFetchDownload)
  faultBudget,   \* faulty answers the network may still give to segments
  \* executeHlsDownload's locals
  pc,            \* the await the coordinating task is suspended at
  currentUrl,
  parsed,
  cryptoKey,     \* TRUE once importAesKey returned a key
  batchStart,    \* the batch loop's i
  completed,
  failedCount,
  buffers,       \* buffers[k]: a hole, or the bytes stored for segment k
  events,        \* the downloadProgress messages sent, in order
  blob,          \* the assembled Blob, once created
  handoff,       \* the downloadCombinedBlob message was sent
  revoked,       \* URL.revokeObjectURL ran
  \* one async closure of batch.map per segment
  segPc,         \* "idle", "fetch", "delay", "decrypt" or "done"
  attempt,       \* fetchWithRetry's loop variable
  fetches,       \* fetch() calls made for the segment
  delays,        \* durations of the backoff timers armed for the segment
  responses,     \* answers the segment's fetches got, in order
  \* executeFetchDownload's locals
  contentLength,
  received,
  chunks,        \* the lengths of the chunks read, in order
  \* history
  outOfOrder,    \* a segment settled while a lower one of its batch had not
  keyFetches,    \* fetch() calls made for the key
  segsAtKey,     \* segment fetches already made when the key was fetched
  ivUsed,        \* ivUsed[k]: the iv passed to decryptSegment for segment k
  \* the release of the blob URL after the handoff (time in ms)
  now,           \* the clock
  jobTimer,      \* the job's stage and its setTimeout
  saver,         \* background.js: the downloadCombinedBlob handler's stage
  blobUrl,       \* the blob URL: whether, when and by whom it was revoked
  \* several jobs and the consumer of their progress messages
  jobs,          \* jobs[j]: the locals of job j
  stream,        \* the downloadProgress messages sent, in order
  downloadStates, \* popup: the Map from url to the state shown
  delivered,     \* popup: the messages its listener has handled
  \* background.js: the download history and the request throttle
  downloadHistory, \* chrome.storage.local's downloadHistory, newest first
  saves,         \* saves[d]: the stage of download d and of its record's save
  recentUrls,    \* the Map from url to the time it was last let through
  lastRequest    \* the last request the listener handled, and whether it passed

envVars == <<topText, mediaText, lenOffset, jobKind>>
segVars == <<segPc, attempt, fetches, delays, responses>>
batchVars == <<batchStart, completed, failedCount, buffers, outOfOrder>>
endVars == <<blob, handoff, revoked>>
keyVars == <<keyFetches, segsAtKey, ivUsed>>
directVars == <<contentLength, received, chunks>>
releaseVars == <<now, jobTimer, saver, blobUrl>>
jobsVars == <<jobs, stream, downloadStates, delivered>>
engineVars == <<envVars, faultBudget, pc, currentUrl, parsed, cryptoKey,
                batchVars, events, endVars, segVars, keyVars, directVars>>
historyVars == <<downloadHistory, saves>>
throttleVars == <<recentUrls, lastRequest>>
backgroundVars == <<historyVars, throttleVars>>
asideVars == <<releaseVars, jobsVars, backgroundVars>>
vars == <<engineVars, asideVars>>

JobUrl == Url(<<"origin">>, "playlist", 0)

\* ----------------------------------------------------------------- payloads

\* fetch(url) of a URL on the host "gone" answers 404, always.
Gone(url) == url.dir = <<"gone">>

\* The body the network serves for a segment URL: SegLen blocks, each
\* carrying the index of the segment it belongs to.
SegIndexOf(url) == url.file[2]
SegLen(k) == (k + lenOffset) % (MaxSegLen + 1)
RawBytes(url) ==
  [b \in 1..SegLen(SegIndexOf(url)) |-> [seg |-> SegIndexOf(url), plain |-> FALSE]]

\* crypto.subtle.decrypt with AES-CBC: it rejects an empty input; the
\* plaintext is the input without its padding, here without its last block.
CanDecrypt(data) == Len(data) > 0
decryptSegment(data) ==
  [b \in 1..(Len(data) - 1) |-> [seg |-> data[b].seg, plain |-> TRUE]]

Hole == [present |-> FALSE, data |-> <<>>]
Filled(data) == [present |-> TRUE, data |-> data]

\* ---------------------------------------------------------------------- IVs

\* The text of an IV attribute is a sequence of characters: 0..15 are the
\* hexadecimal digits, 16 is the letter x (no hexadecimal digit).
\* ivString.replace(/^0x/i, '')
StripHexPrefix(str) ==
  IF Len(str) >= 2 /\ str[1] = 0 /\ str[2] = 16
  THEN SubSeq(str, 3, Len(str)) ELSE str

\* parseInt(hex.substr(i * 2, 2), 16) || 0, for the byte i (from 0):
\* parseInt reads the digits up to the first character that is none, and
\* gives NaN when there is no digit.
HexByte(hex, i) ==
  IF 2 * i + 1 > Len(hex) \/ hex[2 * i + 1] > 15 THEN 0
  ELSE IF 2 * i + 2 > Len(hex) \/ hex[2 * i + 2] > 15 THEN hex[2 * i + 1]
  ELSE 16 * hex[2 * i + 1] + hex[2 * i + 2]

parseHexIV(ivString) ==
  [b \in 1..16 |-> HexByte(StripHexPrefix(ivString), b - 1)]

\* new Uint8Array(16) with view.setUint32(12, sequenceNumber): the number
\* in the bytes 12..15, most significant byte first.
sequenceIVLittleEndian(sequenceNumber) ==
  [b \in 1..16 |->
     CASE b = 13 -> sequenceNumber % 256
       [] b = 14 -> (sequenceNumber \div 256) % 256
       [] b = 15 -> (sequenceNumber \div 65536) % 256
       [] b = 16 -> (sequenceNumber \div 16777216) % 256
       [] OTHER -> 0]
sequenceIV(sequenceNumber) ==
  [b \in 1..16 |->
     CASE b = 13 -> (sequenceNumber \div 16777216) % 256
       [] b = 14 -> (sequenceNumber \div 65536) % 256
       [] b = 15 -> (sequenceNumber \div 256) % 256
       [] b = 16 -> sequenceNumber % 256
       [] OTHER -> 0]

\* globalIV || sequenceIV(parsed.mediaSequence + segIndex), where globalIV
\* is parseHexIV(parsed.encryption.iv) when the key tag has an IV attribute
ChooseIV(p, segIndex) ==
  IF IsSome(Get(p.encryption).iv) /\ Get(Get(p.encryption).iv) /= <<>>
  THEN parseHexIV(Get(Get(p.encryption).iv))
  ELSE sequenceIV(p.mediaSequence + segIndex)

\* ------------------------------------------------------------------- events

\* report(msg, prog): msg is kept as its kind, the text and the numbers it
\* shows; prog is absent (null) or a number.
Event(kind, text, a, b, prog) ==
  [kind |-> kind, text |-> text, a |-> a, b |-> b, prog |-> prog]

\* Math.round(x / y * 100) for x >= 0, y > 0
RoundPercent(x, y) == (200 * x + y) \div (2 * y)

\* Math.min(progress, 95)
ReportUncapped(progress) == progress
CapProgress(progress) == Min(progress, PROGRESS_CAP)
\* Math.round(bandwidth / 1000)
RoundKbps(bw) == (2 * bw + 1000) \div 2000

\* ------------------------------------------------------------ fetchWithRetry

HttpFailStatuses == {"404", "500"}

\* for (let attempt = 0; attempt <= retries; attempt++)
RetryAllowedOffByOne(a) == a <= MAX_RETRIES + 1
RetryAllowed(a) == a <= MAX_RETRIES

\* if (res.status === 404) return null
NeverPermanent(status) == FALSE
IsPermanent(status) == status = "404"

\* catch (e) { if (attempt === retries) return null; }
GiveUpOnThrow(a) == a = MAX_RETRIES

\* setTimeout(r, RETRY_DELAY_MS * (attempt + 1))
BackoffDelay(a) == RETRY_DELAY_MS * (a + 1)

\* ---------------------------------------------------------------- batch loop

Total == Len(parsed.segments)
Indices == 0..(Total - 1)

\* parsed.segments.slice(i, i + CONCURRENCY) holds the indices i..BatchEnd-1
BatchEndAll(i, total) == total
BatchEnd(i, total) == Min(i + CONCURRENCY, total)
InBatch(k, i, total) == i <= k /\ k < BatchEnd(i, total)

\* const segIndex = i + batchIdx
SegIndexInBatch(i, batchIdx) == batchIdx
SegIndex(i, batchIdx) == i + batchIdx

\* buffers[segIndex] = data
StorePushed(bufs, segIndex, data) ==
  [k \in 0..Cardinality(DOMAIN bufs) |->
     IF k \in DOMAIN bufs THEN bufs[k] ELSE Filled(data)]
StoreByArrival(bufs, segIndex, data) ==
  LET holes == {k \in DOMAIN bufs : ~bufs[k].present}
      first == CHOOSE k \in holes : \A j \in holes : k <= j
  IN  [bufs EXCEPT ![first] = Filled(data)]
StoreResult(bufs, segIndex, data) == [bufs EXCEPT ![segIndex] = Filled(data)]

\* for (let i = 0; i < totalSegments; i += CONCURRENCY): the test before the
\* iteration at i
LoopStopsEarly(i, total) == i + CONCURRENCY < total
LoopStopsOnFailure(i, total) == i < total /\ failedCount = 0
LoopContinues(i, total) == i < total

\* await Promise.all(promises): every closure of the batch has returned
WholeJobSettled(i) == \A k \in Indices : segPc[k] = "done"
AnySettled(i) == \E k \in Indices : InBatch(k, i, Total) /\ segPc[k] = "done"
AllSettled(i) == \A k \in Indices : InBatch(k, i, Total) => segPc[k] = "done"

\* The closure of segment k settles while a lower segment of its batch has not.
Overtakes(k) ==
  \E j \in Indices : InBatch(j, batchStart, Total) /\ j < k /\ segPc[j] /= "done"

\* The network may give one more faulty answer.
MayFault == IF faultBudget = None THEN TRUE ELSE Get(faultBudget) > 0
SpendFault == IF faultBudget = None THEN None ELSE Some(Get(faultBudget) - 1)

\* ------------------------------------------------------------------ assembly

\* buffers.filter(b => b != null), then new Blob(validBuffers): the bytes of
\* the present slots, concatenated in index order.
RECURSIVE ConcatFrom(_, _, _)
ConcatFrom(bufs, k, total) ==
  IF k >= total THEN <<>>
  ELSE (IF bufs[k].present THEN bufs[k].data ELSE <<>>) \o ConcatFrom(bufs, k + 1, total)

RECURSIVE ConcatDownFrom(_, _)
ConcatDownFrom(bufs, k) ==
  IF k < 0 THEN <<>>
  ELSE (IF bufs[k].present THEN bufs[k].data ELSE <<>>) \o ConcatDownFrom(bufs, k - 1)

AssembleReversed(bufs) == ConcatDownFrom(bufs, Cardinality(DOMAIN bufs) - 1)
Assemble(bufs) == ConcatFrom(bufs, 0, Cardinality(DOMAIN bufs))

\* validBuffers.length: the slots that were stored into
ValidCountSlots(bufs) == Cardinality(DOMAIN bufs)
ValidCount(bufs) == Cardinality({k \in DOMAIN bufs : bufs[k].present})

\* -------------------------------------------------- executeHlsDownload steps

EmptyMap == [k \in {} |-> 0]

RECURSIVE SumOver(_, _)
SumOver(f, ks) ==
  IF ks = {} THEN 0
  ELSE LET k == CHOOSE x \in ks : TRUE IN f[k] + SumOver(f, ks \ {k})

\* fetch() calls made for segments so far
SegFetches == SumOver(fetches, DOMAIN fetches)

\* catch (e) { report('Error: ' + e.message, null); }
Fail(evs, message) ==
  /\ pc' = "failed"
  /\ events' = Append(evs, Event("Error", message, 0, 0, None))

\* The first iteration of the batch loop up to its await: the locals are
\* set up and every closure of batch 0 runs up to its first fetch().
EnterSegments(p) ==
  LET total == Len(p.segments)
      ks == 0..(total - 1)
  IN  /\ pc' = "segments"
      /\ batchStart' = 0
      /\ completed' = 0
      /\ failedCount' = 0
      /\ outOfOrder' = FALSE
      /\ buffers' = [k \in ks |-> Hole]
      /\ segPc' = [k \in ks |-> IF InBatch(k, 0, total) THEN "fetch" ELSE "idle"]
      /\ attempt' = [k \in ks |-> 0]
      /\ fetches' = [k \in ks |-> IF InBatch(k, 0, total) THEN 1 ELSE 0]
      /\ delays' = [k \in ks |-> <<>>]
      /\ responses' = [k \in ks |-> <<>>]

\* if (parsed.segments.length === 0)
NoSegmentsInMedia(p) == ~p.isMaster /\ Len(p.segments) = 0
NoSegments(p) == Len(p.segments) = 0

\* From the segment-count check to the next await, for the playlist p that
\* holds the segments.
AfterResolve(p, evs) ==
  IF NoSegments(p)
  THEN /\ Fail(evs, "No segments found in playlist")
       /\ UNCHANGED <<cryptoKey, batchVars, segVars, keyVars, directVars>>
  ELSE LET found == Append(evs, Event("Found", "", Len(p.segments), 0, Some(5)))
       IN  IF IsSome(p.encryption) /\ Get(p.encryption).method = "AES-128"
           THEN /\ pc' = "fetchKey"
                /\ events' = Append(found, Event("FetchingKey", "", 0, 0, None))
                /\ keyFetches' = keyFetches + 1
                /\ segsAtKey' = SegFetches
                /\ ivUsed' = ivUsed
                /\ UNCHANGED <<cryptoKey, batchVars, segVars, directVars>>
           ELSE /\ events' = found
                /\ EnterSegments(p)
                /\ UNCHANGED <<cryptoKey, keyVars, directVars>>

\* report('Fetching playlist...', 0); fetch(url)
Start ==
  /\ pc = "idle" /\ jobKind = "hls"
  /\ pc' = "fetchPlaylist"
  /\ events' = Append(events, Event("FetchingPlaylist", "", 0, 0, Some(0)))
  /\ UNCHANGED <<asideVars, envVars, faultBudget, currentUrl, parsed, cryptoKey,
                 batchVars, endVars, segVars, keyVars, directVars>>

\* The playlist arrives: it is parsed; a master playlist with variants has
\* its best variant fetched, any other goes on with its own segments.
PlaylistOk ==
  /\ pc = "fetchPlaylist"
  /\ \E p \in {parseM3u8(topText, JobUrl)} :
        IF p.isMaster /\ Len(p.variants) > 0
        THEN \E best \in {SelectBest(p.variants)} :
               /\ parsed' = [p EXCEPT !.variants = SortVariants(p.variants)]
               /\ events' = Append(events,
                     Event("Selected", best.resolution,
                           RoundKbps(best.bandwidth), 0, Some(2)))
               /\ currentUrl' = best.url
               /\ pc' = "fetchVariant"
               /\ UNCHANGED <<cryptoKey, batchVars, segVars, keyVars, directVars>>
        ELSE /\ parsed' = p
             /\ currentUrl' = currentUrl
             /\ AfterResolve(p, events)
  /\ UNCHANGED <<asideVars, envVars, faultBudget, endVars>>

\* The playlist fetch answers with a non-ok status, or rejects.
PlaylistFail ==
  /\ pc = "fetchPlaylist"
  /\ \E message \in {"Playlist fetch failed: 500", "Failed to fetch"} :
        Fail(events, message)
  /\ UNCHANGED <<asideVars, envVars, faultBudget, currentUrl, parsed, cryptoKey,
                 batchVars, endVars, segVars, keyVars, directVars>>

VariantOk ==
  /\ pc = "fetchVariant"
  /\ \E p \in {parseM3u8(mediaText, currentUrl)} :
        /\ parsed' = p
        /\ AfterResolve(p, events)
  /\ UNCHANGED <<asideVars, envVars, faultBudget, currentUrl, endVars>>

VariantFail ==
  /\ pc = "fetchVariant"
  /\ \E message \in {"Variant playlist fetch failed: 500", "Failed to fetch"} :
        Fail(events, message)
  /\ UNCHANGED <<asideVars, envVars, faultBudget, currentUrl, parsed, cryptoKey,
                 batchVars, endVars, segVars, keyVars, directVars>>

\* The key bytes arrive; importAesKey is awaited next.
KeyOk ==
  /\ pc = "fetchKey"
  /\ pc' = "importKey"
  /\ UNCHANGED <<asideVars, envVars, faultBudget, currentUrl, parsed, cryptoKey,
                 batchVars, events, endVars, segVars, keyVars, directVars>>

\* The key fetch failing as if the key were fetched with fetchWithRetry.
KeyFailRetried ==
  /\ pc = "fetchKey"
  /\ keyFetches <= MAX_RETRIES
  /\ keyFetches' = keyFetches + 1
  /\ UNCHANGED <<asideVars, envVars, faultBudget, pc, currentUrl, parsed, cryptoKey,
                 batchVars, events, endVars, segVars, segsAtKey, ivUsed,
                 directVars>>

KeyFail ==
  /\ pc = "fetchKey"
  /\ \E message \in {"Key fetch failed: 500", "Failed to fetch"} :
        Fail(events, message)
  /\ UNCHANGED <<asideVars, envVars, faultBudget, currentUrl, parsed, cryptoKey,
                 batchVars, endVars, segVars, keyVars, directVars>>

ImportKeyOk ==
  /\ pc = "importKey"
  /\ cryptoKey' = TRUE
  /\ EnterSegments(parsed)
  /\ UNCHANGED <<asideVars, envVars, faultBudget, currentUrl, parsed, events, endVars,
                 keyVars, directVars>>

\* crypto.subtle.importKey rejects (key data of a wrong length)
ImportKeyFail ==
  /\ pc = "importKey"
  /\ Fail(events, "Invalid key length")
  /\ UNCHANGED <<asideVars, envVars, faultBudget, currentUrl, parsed, cryptoKey,
                 batchVars, endVars, segVars, keyVars, directVars>>

\* ------------------------------------------------- one closure of batch.map

\* fetchWithRetry returned null: failedCount++; return
SettleAbsentUncounted(k) ==
  /\ segPc' = [segPc EXCEPT ![k] = "done"]
  /\ outOfOrder' = (outOfOrder \/ Overtakes(k))
  /\ UNCHANGED <<failedCount, buffers, batchStart, completed>>
SettleAbsent(k) ==
  /\ segPc' = [segPc EXCEPT ![k] = "done"]
  /\ failedCount' = failedCount + 1
  /\ outOfOrder' = (outOfOrder \/ Overtakes(k))
  /\ UNCHANGED <<buffers, batchStart, completed>>

\* the closure stores data into its slot and returns
SettleWith(k, data) ==
  /\ segPc' = [segPc EXCEPT ![k] = "done"]
  /\ buffers' = StoreResult(buffers, SegIndex(batchStart, k - batchStart), data)
  /\ outOfOrder' = (outOfOrder \/ Overtakes(k))
  /\ UNCHANGED <<failedCount, batchStart, completed>>

\* await new Promise(r => setTimeout(r, RETRY_DELAY_MS * (attempt + 1)))
ArmBackoff(k) ==
  /\ segPc' = [segPc EXCEPT ![k] = "delay"]
  /\ delays' = [delays EXCEPT ![k] = Append(@, BackoffDelay(attempt[k]))]
  /\ UNCHANGED <<batchVars>>

\* The fetch of segment k answers ok and its body is read.
SegOk(k) ==
  /\ pc = "segments" /\ segPc[k] = "fetch"
  /\ ~Gone(parsed.segments[k + 1])
  /\ responses' = [responses EXCEPT ![k] = Append(@, "200")]
  /\ IF cryptoKey
     THEN /\ segPc' = [segPc EXCEPT ![k] = "decrypt"]
          /\ ivUsed' = ivUsed @@ (k :> ChooseIV(parsed, SegIndex(batchStart, k - batchStart)))
          /\ UNCHANGED batchVars
     ELSE /\ SettleWith(k, RawBytes(parsed.segments[k + 1]))
          /\ UNCHANGED ivUsed
  /\ UNCHANGED <<asideVars, envVars, faultBudget, pc, currentUrl, parsed, cryptoKey,
                 events, endVars, attempt, fetches, delays, keyFetches,
                 segsAtKey, directVars>>

\* The fetch of segment k answers with a non-ok status.
SegHttpFail(k) ==
  /\ pc = "segments" /\ segPc[k] = "fetch"
  /\ IF Gone(parsed.segments[k + 1])
     THEN faultBudget' = faultBudget
     ELSE MayFault /\ faultBudget' = SpendFault
  /\ \E status \in HttpFailStatuses :
       /\ Gone(parsed.segments[k + 1]) => status = "404"
       /\ responses' = [responses EXCEPT ![k] = Append(@, status)]
       /\ IF IsPermanent(status)
          THEN SettleAbsent(k) /\ UNCHANGED delays
          ELSE ArmBackoff(k)
  /\ UNCHANGED <<asideVars, envVars, pc, currentUrl, parsed, cryptoKey, events, endVars,
                 attempt, fetches, keyVars, directVars>>

\* fetch() or res.arrayBuffer() rejects.
SegThrow(k) ==
  /\ pc = "segments" /\ segPc[k] = "fetch"
  /\ ~Gone(parsed.segments[k + 1])
  /\ MayFault
  /\ faultBudget' = SpendFault
  /\ responses' = [responses EXCEPT ![k] = Append(@, "throw")]
  /\ IF GiveUpOnThrow(attempt[k])
     THEN SettleAbsent(k) /\ UNCHANGED delays
     ELSE ArmBackoff(k)
  /\ UNCHANGED <<asideVars, envVars, pc, currentUrl, parsed, cryptoKey, events, endVars,
                 attempt, fetches, keyVars, directVars>>

\* The backoff timer of segment k fires: attempt++, then the loop test.
SegTimer(k) ==
  /\ pc = "segments" /\ segPc[k] = "delay"
  /\ attempt' = [attempt EXCEPT ![k] = @ + 1]
  /\ IF RetryAllowed(attempt[k] + 1)
     THEN /\ segPc' = [segPc EXCEPT ![k] = "fetch"]
          /\ fetches' = [fetches EXCEPT ![k] = @ + 1]
          /\ UNCHANGED batchVars
     ELSE SettleAbsent(k) /\ UNCHANGED fetches
  /\ UNCHANGED <<asideVars, envVars, faultBudget, pc, currentUrl, parsed, cryptoKey,
                 events, endVars, delays, responses, keyVars, directVars>>

\* decryptSegment resolves: buffers[segIndex] = decrypted
DecryptOk(k) ==
  /\ pc = "segments" /\ segPc[k] = "decrypt"
  /\ CanDecrypt(RawBytes(parsed.segments[k + 1]))
  /\ SettleWith(k, decryptSegment(RawBytes(parsed.segments[k + 1])))
  /\ UNCHANGED <<asideVars, envVars, faultBudget, pc, currentUrl, parsed, cryptoKey,
                 events, endVars, attempt, fetches, delays, responses, keyVars, directVars>>

\* decryptSegment rejecting with the segment dropped and counted as failed.
DecryptFailDrops(k) ==
  /\ pc = "segments" /\ segPc[k] = "decrypt"
  /\ IF CanDecrypt(RawBytes(parsed.segments[k + 1]))
     THEN MayFault /\ faultBudget' = SpendFault
     ELSE faultBudget' = faultBudget
  /\ SettleAbsent(k)
  /\ UNCHANGED <<asideVars, envVars, pc, currentUrl, parsed, cryptoKey, events, endVars,
                 attempt, fetches, delays, responses, keyVars, directVars>>

\* decryptSegment rejects: buffers[segIndex] = data
DecryptFail(k) ==
  /\ pc = "segments" /\ segPc[k] = "decrypt"
  /\ IF CanDecrypt(RawBytes(parsed.segments[k + 1]))
     THEN MayFault /\ faultBudget' = SpendFault
     ELSE faultBudget' = faultBudget
  /\ SettleWith(k, RawBytes(parsed.segments[k + 1]))
  /\ UNCHANGED <<asideVars, envVars, pc, currentUrl, parsed, cryptoKey, events, endVars,
                 attempt, fetches, delays, responses, keyVars, directVars>>

\* ------------------------------------------------- after Promise.all resolves

\* Finish with the completion reported and handed off before the size check.
FinishEager(evs) ==
  IF ValidCount(buffers) = 0
  THEN /\ Fail(evs, "All segments failed to download")
       /\ UNCHANGED endVars
  ELSE LET warned == IF failedCount > 0
                     THEN Append(evs, Event("Warning", "", failedCount, Total, None))
                     ELSE evs
           assembling == Append(warned, Event("Assembling", "", 0, 0, Some(96)))
           bytes == Assemble(buffers)
           reported == Append(assembling,
                              Event("Complete", "", Len(bytes), 0, Some(100)))
       IN  /\ blob' = Some(bytes)
           /\ handoff' = TRUE
           /\ revoked' = FALSE
           /\ IF Len(bytes) = 0
              THEN Fail(reported, "Assembled file is empty")
              ELSE events' = reported /\ pc' = "complete"

\* From the filter of the buffers to the end of the function.
Finish(evs) ==
  IF ValidCount(buffers) = 0
  THEN /\ Fail(evs, "All segments failed to download")
       /\ UNCHANGED endVars
  ELSE LET warned == IF failedCount > 0
                     THEN Append(evs, Event("Warning", "", failedCount, Total, None))
                     ELSE evs
           assembling == Append(warned, Event("Assembling", "", 0, 0, Some(96)))
           bytes == Assemble(buffers)
       IN  IF Len(bytes) = 0
           THEN /\ Fail(assembling, "Assembled file is empty")
                /\ UNCHANGED endVars
           ELSE /\ blob' = Some(bytes)
                /\ events' = Append(assembling,
                                    Event("Complete", "", Len(bytes), 0, Some(100)))
                /\ handoff' = TRUE
                /\ revoked' = FALSE
                /\ pc' = "complete"

\* Promise.all of the batch resolves: the progress event, then the next
\* batch is issued or, after the last one, the file is assembled.
BatchSettled ==
  /\ pc = "segments"
  /\ AllSettled(batchStart)
  /\ LET done == Min(batchStart + CONCURRENCY, Total)
         evs == Append(events,
                  Event("Segments", "", done, Total,
                        Some(CapProgress(RoundPercent(done, Total)))))
     IN  /\ completed' = done
         /\ batchStart' = batchStart + CONCURRENCY
         /\ IF LoopContinues(batchStart + CONCURRENCY, Total)
            THEN /\ segPc' = [k \in Indices |->
                       IF InBatch(k, batchStart + CONCURRENCY, Total)
                       THEN "fetch" ELSE segPc[k]]
                 /\ fetches' = [k \in Indices |->
                       IF InBatch(k, batchStart + CONCURRENCY, Total)
                       THEN fetches[k] + 1 ELSE fetches[k]]
                 /\ events' = evs
                 /\ UNCHANGED <<pc, endVars>>
            ELSE /\ Finish(evs)
                 /\ UNCHANGED <<segPc, fetches>>
  /\ UNCHANGED <<asideVars, envVars, faultBudget, currentUrl, parsed, cryptoKey,
                 failedCount, buffers, outOfOrder, attempt, delays, responses,
                 keyVars, directVars>>

\* The timer set at the end of the function fires: URL.revokeObjectURL
RevokeTimer ==
  /\ pc = "complete" /\ ~revoked
  /\ revoked' = TRUE
  /\ UNCHANGED <<asideVars, envVars, faultBudget, pc, currentUrl, parsed, cryptoKey,
                 batchVars, events, blob, handoff, segVars, keyVars, directVars>>

\* ------------------------------------------------ executeFetchDownload steps

\* The bytes of the chunks read: chunk c contributes chunks[c] blocks.
RECURSIVE ChunkBytes(_, _)
ChunkBytes(cs, c) ==
  IF c > Len(cs) THEN <<>>
  ELSE [b \in 1..cs[c] |-> [seg |-> c, plain |-> FALSE]] \o ChunkBytes(cs, c + 1)

\* report('Starting download...', 0); fetch(url)
DirectStart ==
  /\ pc = "idle" /\ jobKind = "direct"
  /\ pc' = "directFetch"
  /\ events' = Append(events, Event("Starting", "", 0, 0, Some(0)))
  /\ UNCHANGED <<asideVars, envVars, faultBudget, currentUrl, parsed, cryptoKey,
                 batchVars, endVars, segVars, keyVars, directVars>>

\* The response is ok: Content-Length is read (0 when missing).
DirectResponseOk ==
  /\ pc = "directFetch"
  /\ pc' = "directRead"
  /\ \E declared \in 0..MaxContentLength : contentLength' = declared
  /\ received' = 0
  /\ chunks' = <<>>
  /\ UNCHANGED <<asideVars, envVars, faultBudget, currentUrl, parsed, cryptoKey,
                 batchVars, events, endVars, segVars, keyVars>>

DirectResponseFail ==
  /\ pc = "directFetch"
  /\ \E message \in {"HTTP 500", "Failed to fetch"} : Fail(events, message)
  /\ UNCHANGED <<asideVars, envVars, faultBudget, currentUrl, parsed, cryptoKey,
                 batchVars, endVars, segVars, keyVars, directVars>>

\* reader.read() yields a chunk: it is kept and a progress event is sent.
DirectChunk ==
  /\ pc = "directRead"
  /\ Len(chunks) < MaxChunks
  /\ \E n \in 1..MaxChunkLen :
       /\ chunks' = Append(chunks, n)
       /\ received' = received + n
       /\ events' = Append(events,
            IF contentLength > 0
            THEN Event("Progress", "", RoundPercent(received + n, contentLength),
                       0, Some(RoundPercent(received + n, contentLength)))
            ELSE Event("Downloaded", "", received + n, 0, None))
  /\ UNCHANGED <<asideVars, envVars, faultBudget, pc, currentUrl, parsed, cryptoKey,
                 batchVars, endVars, segVars, keyVars, contentLength>>

\* reader.read() reports the end of the body: the blob is made and handed
\* off, then the completion is reported.
DirectDone ==
  /\ pc = "directRead"
  /\ pc' = "complete"
  /\ blob' = Some(ChunkBytes(chunks, 1))
  /\ handoff' = TRUE
  /\ revoked' = FALSE
  /\ events' = events \o <<Event("Finalizing", "", 0, 0, Some(98)),
                           Event("Complete", "", Len(ChunkBytes(chunks, 1)), 0,
                                 Some(100))>>
  /\ UNCHANGED <<asideVars, envVars, faultBudget, currentUrl, parsed, cryptoKey,
                 batchVars, segVars, keyVars, directVars>>

\* reader.read() rejects.
DirectReadFail ==
  /\ pc = "directRead"
  /\ Fail(events, "network error")
  /\ UNCHANGED <<asideVars, envVars, faultBudget, currentUrl, parsed, cryptoKey,
                 batchVars, endVars, segVars, keyVars, directVars>>

\* ------------------------------------------------------------ the networks

Bandwidths == {500000, 800000, 1200000}
\* The RESOLUTION attribute is written on the variants at odd positions.
ResolutionAt(k) == IF k % 2 = 1 THEN Some("1920x1080") ELSE None
BandwidthLists == UNION {[1..m -> Bandwidths] : m \in 1..MaxVariants}

RECURSIVE SegmentLines(_, _)
SegmentLines(k, n) ==
  IF k >= n THEN <<>> ELSE <<UriLine(Rel("seg", k))>> \o SegmentLines(k + 1, n)

\* A media playlist of n segments, with an AES-128 key tag when encrypted.
MediaPlaylist(n, encrypted) ==
  <<CommentLine, MediaSequenceLine(5)>>
  \o (IF encrypted
      THEN <<KeyLine(Some("AES-128"), Some(Rel("key", 0)), None)>> ELSE <<>>)
  \o SegmentLines(0, n)

RECURSIVE VariantLines(_, _)
VariantLines(bws, k) ==
  IF k > Len(bws) THEN <<>>
  ELSE <<StreamInfLine(Some(bws[k]), ResolutionAt(k)),
         UriLine(Url(<<"cdn", k>>, "playlist", k))>> \o VariantLines(bws, k + 1)

MasterPlaylist(bws) == <<CommentLine>> \o VariantLines(bws, 1)

\* A playlist of at most one segment on a network that may fail without
\* limit: every sequence of answers to fetchWithRetry.
FlakyNetwork ==
  \E n \in 0..1, encrypted \in BOOLEAN, off \in 0..MaxSegLen :
    /\ topText = MediaPlaylist(n, encrypted)
    /\ mediaText = <<>>
    /\ lenOffset = off
    /\ faultBudget = None
    /\ jobKind = "hls"

\* A short playlist, plain or encrypted, up to MaxFaults of whose answers
\* are faulty.
SmallNetwork ==
  \E n \in 2..MaxSmallSegs, encrypted \in BOOLEAN :
    /\ topText = MediaPlaylist(n, encrypted)
    /\ mediaText = <<>>
    /\ lenOffset = 1
    /\ faultBudget = Some(MaxFaults)
    /\ jobKind = "hls"

\* A plain playlist of one full batch or more; the longest one gets up to
\* MaxFaults faulty answers.
WideNetwork ==
  \E n \in CONCURRENCY..MaxSegs :
    /\ topText = MediaPlaylist(n, FALSE)
    /\ mediaText = <<>>
    /\ lenOffset = 1
    /\ faultBudget = Some(IF n = MaxSegs THEN MaxFaults ELSE 0)
    /\ jobKind = "hls"

\* A master playlist whose variants all serve a playlist of 0 or 1 segment.
MasterNetwork ==
  \E bws \in BandwidthLists, n \in 0..1 :
    /\ topText = MasterPlaylist(bws)
    /\ mediaText = MediaPlaylist(n, FALSE)
    /\ lenOffset = 1
    /\ faultBudget = Some(0)
    /\ jobKind = "hls"

\* IV attributes: 32 digits after 0x, 32 digits without the prefix, and a
\* short text.
IVStrings ==
  {<<0, 16>> \o [d \in 1..32 |-> (7 * d) % 16],
   [d \in 1..32 |-> (5 * d + 3) % 16],
   <<0, 16, 10, 11, 12>>}

KeyedPlaylist(n, seq, iv) ==
  <<CommentLine, MediaSequenceLine(seq),
    KeyLine(Some("AES-128"), Some(Rel("key", 0)), iv)>> \o SegmentLines(0, n)

\* Encrypted playlists whose segments all answer: short ones with and
\* without an IV attribute, and the longest one with the IVs derived.
KeyedNetwork ==
  /\ \/ \E n \in 1..2, seq \in {5, 255},
           iv \in {None} \cup {Some(str) : str \in IVStrings} :
             topText = KeyedPlaylist(n, seq, iv)
     \/ topText = KeyedPlaylist(MaxSegs, 5, None)
  /\ mediaText = <<>>
  /\ lenOffset = 1
  /\ faultBudget = Some(0)
  /\ jobKind = "hls"

\* A master playlist whose stream-info tags are followed by no URL line.
BareTails ==
  {<<>>, <<BlankLine>>, <<CommentLine>>,
   <<StreamInfLine(Some(800000), None), BlankLine>>}

BareMasterNetwork ==
  \E bw \in Bandwidths, tail \in BareTails :
    /\ topText = <<CommentLine, StreamInfLine(Some(bw), None)>> \o tail
    /\ mediaText = MediaPlaylist(1, FALSE)
    /\ lenOffset = 1
    /\ faultBudget = Some(0)
    /\ jobKind = "hls"

\* A playlist all of whose segments are on the host that answers 404.
RECURSIVE GoneLines(_, _)
GoneLines(k, n) ==
  IF k >= n THEN <<>>
  ELSE <<UriLine(Url(<<"gone">>, "seg", k))>> \o GoneLines(k + 1, n)

DeadNetwork ==
  \E n \in 1..MaxSegs :
    /\ topText = <<CommentLine>> \o GoneLines(0, n)
    /\ mediaText = <<>>
    /\ lenOffset = 1
    /\ faultBudget = Some(0)
    /\ jobKind = "hls"

\* The longest playlist with a single segment, the first or the last, on a
\* host that answers; all the others are answered 404.
PatchyLines(n, good) ==
  [k \in 1..n |-> IF k - 1 = good THEN UriLine(Rel("seg", k - 1))
                  ELSE UriLine(Url(<<"gone">>, "seg", k - 1))]

PatchyNetwork ==
  \E good \in {0, MaxSegs - 1} :
    /\ topText = <<CommentLine>> \o PatchyLines(MaxSegs, good)
    /\ mediaText = <<>>
    /\ lenOffset = 2
    /\ faultBudget = Some(0)
    /\ jobKind = "hls"

\* A direct download of a single media URL.
DirectNetwork ==
  /\ topText = <<>>
  /\ mediaText = <<>>
  /\ lenOffset = 0
  /\ faultBudget = Some(0)
  /\ jobKind = "direct"

\* ------------------------------------------------------ playlists as written

\* String.prototype.toUpperCase on the tag names and method values used.
ToUpperCase(str) ==
  CASE str = "#ext-x-stream-inf" -> "#EXT-X-STREAM-INF"
    [] str = "#ext-x-media-sequence" -> "#EXT-X-MEDIA-SEQUENCE"
    [] str = "#ext-x-key" -> "#EXT-X-KEY"
    [] str = "aes-128" -> "AES-128"
    [] str = "none" -> "NONE"
    [] OTHER -> str

ToLowerCase(str) ==
  CASE str = "#EXT-X-STREAM-INF" -> "#ext-x-stream-inf"
    [] str = "#EXT-X-MEDIA-SEQUENCE" -> "#ext-x-media-sequence"
    [] str = "#EXT-X-KEY" -> "#ext-x-key"
    [] str = "AES-128" -> "aes-128"
    [] str = "NONE" -> "none"
    [] OTHER -> str

MapMethod(method, Op(_)) == IF IsSome(method) THEN Some(Op(Get(method))) ELSE method

\* A line with its tag name, or its METHOD value, in the other letter case.
UpperLine(line) ==
  [line EXCEPT !.tag = ToUpperCase(@), !.method = MapMethod(@, ToUpperCase)]
UpperText(text) == [i \in DOMAIN text |-> UpperLine(text[i])]
Recase(line, how) ==
  CASE how = "tag" -> [line EXCEPT !.tag = ToLowerCase(@)]
    [] how = "value" -> [line EXCEPT !.method = MapMethod(@, ToLowerCase)]
    [] OTHER -> line

\* Playlists whose lines are written in upper case, with a lower-case tag
\* name or with a lower-case METHOD value, line by line.
CaseBases ==
  {<<StreamInfLine(Some(800000), Some("1280x720")),
     UriLine(Url(<<"cdn", 1>>, "playlist", 1))>>,
   <<MediaSequenceLine(5), KeyLine(Some("AES-128"), Some(Rel("key", 0)), None),
     UriLine(Rel("seg", 0))>>,
   <<KeyLine(Some("AES-128"), Some(Rel("key", 0)), None),
     KeyLine(Some("NONE"), None, None), UriLine(Rel("seg", 0))>>}
CaseTexts ==
  UNION {{[i \in DOMAIN text |-> Recase(text[i], how[i])] :
            how \in [DOMAIN text -> {"asis", "tag", "value"}]} :
         text \in CaseBases}

CaseNetwork ==
  \E text \in CaseTexts :
    /\ topText = text
    /\ mediaText = MediaPlaylist(1, FALSE)
    /\ lenOffset = 1
    /\ faultBudget = Some(0)
    /\ jobKind = "hls"

\* Sequences of at most n lines taken from the set lines.
RECURSIVE SeqsUpTo(_, _)
SeqsUpTo(lines, n) ==
  IF n = 0 THEN {<<>>}
  ELSE LET shorter == SeqsUpTo(lines, n - 1)
       IN  shorter \cup {Append(t, l) : t \in shorter, l \in lines}

\* Master playlists with comment or blank lines between a stream-info tag
\* and the URL line of its variant.
Gaps == SeqsUpTo({CommentLine, BlankLine}, MaxGap)
GapVariant(k, bw, gap) ==
  <<StreamInfLine(Some(bw), None)>> \o gap
    \o <<UriLine(Url(<<"cdn", k>>, "playlist", k))>>
GapTexts ==
  {GapVariant(1, 800000, gap) : gap \in Gaps}
  \cup {GapVariant(1, 800000, gap1) \o GapVariant(2, 1200000, gap2) :
          gap1 \in Gaps, gap2 \in Gaps}

GapNetwork ==
  \E text \in GapTexts :
    /\ topText = text
    /\ mediaText = MediaPlaylist(1, FALSE)
    /\ lenOffset = 1
    /\ faultBudget = Some(0)
    /\ jobKind = "hls"

\* Media playlists with up to MaxKeyTags key tags between their two
\* segments: two different AES-128 keys, AES-128 without a URI, NONE,
\* a method the parser does not know, and a tag without METHOD.
KeyTags ==
  {KeyLine(Some("AES-128"), Some(Rel("key", 0)), None),
   KeyLine(Some("AES-128"), Some(Rel("key", 1)), Some(<<0, 16, 1, 2>>)),
   KeyLine(Some("AES-128"), None, None),
   KeyLine(Some("NONE"), None, None),
   KeyLine(Some("SAMPLE-AES"), Some(Rel("key", 2)), None),
   KeyLine(None, None, None)}
KeyTagTexts ==
  {<<UriLine(Rel("seg", 0))>> \o tags \o <<UriLine(Rel("seg", 1))>> :
     tags \in SeqsUpTo(KeyTags, MaxKeyTags)}

KeyTagNetwork ==
  \E text \in KeyTagTexts :
    /\ topText = text
    /\ mediaText = <<>>
    /\ lenOffset = 1
    /\ faultBudget = Some(0)
    /\ jobKind = "hls"

\* A master playlist with a variant given by a relative reference and one
\* given by an absolute URL on another host, either of them the best; every
\* variant serves an encrypted playlist with a relative key URI, a relative
\* segment and a segment given by an absolute URL.
BaseMaster(relBw, absBw) ==
  <<StreamInfLine(Some(relBw), None), UriLine(Rel("playlist", 1)),
    StreamInfLine(Some(absBw), None), UriLine(Url(<<"cdn", 2>>, "playlist", 2))>>
BaseMedia ==
  <<KeyLine(Some("AES-128"), Some(Rel("key", 0)), None),
    UriLine(Rel("seg", 0)), UriLine(Url(<<"media">>, "seg", 1))>>

BaseNetwork ==
  \E bws \in {<<800000, 1200000>>, <<1200000, 800000>>} :
    /\ topText = BaseMaster(bws[1], bws[2])
    /\ mediaText = BaseMedia
    /\ lenOffset = 1
    /\ faultBudget = Some(0)
    /\ jobKind = "hls"

\* ------------------------------------------------- release of the blob URL

\* The handoff of an assembled file and the timers that revoke its blob URL:
\* the job's own timer (src/offscreen.js) and the one the handler of the
\* downloadCombinedBlob message arms (src/background.js).  Time is in ms; the
\* clock advances by the shorter of the two delays and never passes a timer
\* that is due.

ClockStep == BG_REVOKE_DELAY_MS
MaxClock == MaxTicks * ClockStep

\* setTimeout(f, delay) armed at armedAt: f may run from armedAt + delay on.
TimerDue(armedAt, delay) == IsSome(armedAt) /\ now >= Get(armedAt) + delay

\* URL.revokeObjectURL(blobUrl): revoking a URL twice changes nothing.
Revoke(b, who) ==
  IF b.revoked THEN b ELSE [revoked |-> TRUE, by |-> who, at |-> Some(now)]

ReleaseIdle ==
  /\ now = 0
  /\ jobTimer = [pc |-> "assembled", armedAt |-> None, path |-> "hls"]
  /\ saver = [pc |-> "idle", armedAt |-> None, status |-> "none"]
  /\ blobUrl = [revoked |-> FALSE, by |-> "none", at |-> None]

\* The job has created the blob URL: it sends the downloadCombinedBlob
\* message and arms its timer, on either path.
Handoff ==
  /\ jobTimer.pc = "assembled"
  /\ \E path \in {"hls", "direct"} :
       jobTimer' = [pc |-> "waiting", armedAt |-> Some(now), path |-> path]
  /\ saver' = [saver EXCEPT !.pc = "message"]
  /\ UNCHANGED <<engineVars, jobsVars, backgroundVars, now, blobUrl>>

\* The timer of the job fires only when an acknowledgment has arrived.
JobRevokeOnAck ==
  /\ jobTimer.pc = "waiting"
  /\ TimerDue(jobTimer.armedAt, REVOKE_DELAY_MS)
  /\ saver.status = "complete"
  /\ jobTimer' = [jobTimer EXCEPT !.pc = "fired"]
  /\ blobUrl' = Revoke(blobUrl, "job")
  /\ UNCHANGED <<engineVars, jobsVars, backgroundVars, now, saver>>

\* The timer of the job fires: try { URL.revokeObjectURL(blobUrl) }
JobRevoke ==
  /\ jobTimer.pc = "waiting"
  /\ TimerDue(jobTimer.armedAt, REVOKE_DELAY_MS)
  /\ jobTimer' = [jobTimer EXCEPT !.pc = "fired"]
  /\ blobUrl' = Revoke(blobUrl, "job")
  /\ UNCHANGED <<engineVars, jobsVars, backgroundVars, now, saver>>

\* The message handler runs: chrome.downloads.download is called.
SaverReceive ==
  /\ saver.pc = "message"
  /\ saver' = [saver EXCEPT !.pc = "starting"]
  /\ UNCHANGED <<engineVars, jobsVars, backgroundVars, now, jobTimer, blobUrl>>

\* The callback of chrome.downloads.download runs, with a download id or
\* with lastError set; either way it arms the 5000 ms timer.
SaverCallback ==
  /\ saver.pc = "starting"
  /\ \E started \in BOOLEAN :
       saver' = [pc |-> "armed", armedAt |-> Some(now),
                 status |-> IF started THEN "downloading" ELSE "failed"]
  /\ UNCHANGED <<engineVars, jobsVars, backgroundVars, now, jobTimer, blobUrl>>

\* The 5000 ms timer fires.  URL.revokeObjectURL either revokes the URL or
\* throws where the method is not available; the exception is swallowed.
SaverRevoke ==
  /\ saver.pc = "armed"
  /\ TimerDue(saver.armedAt, BG_REVOKE_DELAY_MS)
  /\ saver' = [saver EXCEPT !.pc = "fired"]
  /\ \E effective \in BOOLEAN :
       blobUrl' = IF effective THEN Revoke(blobUrl, "background") ELSE blobUrl
  /\ UNCHANGED <<engineVars, jobsVars, backgroundVars, now, jobTimer>>

\* chrome.downloads.onChanged for a tracked download: the acknowledgment.
DownloadChanged ==
  /\ saver.status = "downloading"
  /\ \E state \in {"complete", "interrupted"} :
       saver' = [saver EXCEPT !.status = state]
  /\ UNCHANGED <<engineVars, jobsVars, backgroundVars, now, jobTimer, blobUrl>>

\* Time passes, unless a timer is due; the handoff comes within one step of
\* the clock.
Tick ==
  /\ now < MaxClock
  /\ jobTimer.pc = "assembled" => now < ClockStep
  /\ ~(jobTimer.pc = "waiting" /\ TimerDue(jobTimer.armedAt, REVOKE_DELAY_MS))
  /\ ~(saver.pc = "armed" /\ TimerDue(saver.armedAt, BG_REVOKE_DELAY_MS))
  /\ now' = now + ClockStep
  /\ UNCHANGED <<engineVars, jobsVars, backgroundVars, jobTimer, saver, blobUrl>>

\* ------------------------------------------------------- concurrent jobs

\* Two invocations of executeHlsDownload in the offscreen document, and the
\* popup that consumes their downloadProgress messages.  A job keeps its
\* locals in its own closure; a message carries tabId, url, msg and prog.
\* The field job of a message records its sender: it is not in the message
\* the code sends.

JobIds == {1, 2}
TabIds == {1, 2}
\* tab.id of the popup
PopupTab == 1
OtherUrl == Url(<<"origin">>, "playlist", 1)
SourceUrls == {JobUrl, OtherUrl}
JobSegCounts == {1, 2}

IdleJob ==
  [pc |-> "idle", url |-> JobUrl, tabId |-> PopupTab, buffers |-> EmptyMap,
   failedCount |-> 0, completed |-> 0]

\* report(msg, prog) of job j
Report(j, msg, prog) ==
  [job |-> j, tabId |-> jobs[j].tabId, url |-> jobs[j].url,
   msg |-> msg, prog |-> prog]

JobsIdle ==
  /\ jobs = [j \in JobIds |-> IdleJob]
  /\ stream = <<>>
  /\ downloadStates = EmptyMap
  /\ delivered = 0

\* startHlsDownload is handled and executeUltimateDownload starts a job:
\* report('Fetching playlist...', 0); fetch(url).  Job 1 is started from the
\* popup's tab for JobUrl, job 2 for any URL and tab.
StartJob(j) ==
  /\ jobs[j].pc = "idle"
  /\ \E url \in SourceUrls, tabId \in TabIds :
       /\ j = 1 => (url = JobUrl /\ tabId = PopupTab)
       /\ jobs' = [jobs EXCEPT ![j] =
                     [IdleJob EXCEPT !.pc = "fetchPlaylist",
                                     !.url = url, !.tabId = tabId]]
       /\ stream' = Append(stream,
            [job |-> j, tabId |-> tabId, url |-> url,
             msg |-> "FetchingPlaylist", prog |-> Some(0)])
  /\ UNCHANGED <<engineVars, releaseVars, backgroundVars, downloadStates, delivered>>

\* The playlist of job j arrives with n segments.
JobPlaylistOk(j) ==
  /\ jobs[j].pc = "fetchPlaylist"
  /\ \E n \in JobSegCounts \cup {0} :
       IF n = 0
       THEN /\ jobs' = [jobs EXCEPT ![j].pc = "failed"]
            /\ stream' = Append(stream, Report(j, "Error", None))
       ELSE /\ jobs' = [jobs EXCEPT ![j].pc = "segments",
                                    ![j].buffers = [k \in 0..(n - 1) |-> "pending"]]
            /\ stream' = Append(stream, Report(j, "Found", Some(5)))
  /\ UNCHANGED <<engineVars, releaseVars, backgroundVars, downloadStates, delivered>>

JobPlaylistFail(j) ==
  /\ jobs[j].pc = "fetchPlaylist"
  /\ jobs' = [jobs EXCEPT ![j].pc = "failed"]
  /\ stream' = Append(stream, Report(j, "Error", None))
  /\ UNCHANGED <<engineVars, releaseVars, backgroundVars, downloadStates, delivered>>

\* fetchWithRetry of segment k of job j returns: data or null.
JobSegSettled(j, k) ==
  /\ jobs[j].pc = "segments"
  /\ k \in DOMAIN jobs[j].buffers
  /\ jobs[j].buffers[k] = "pending"
  /\ \E data \in BOOLEAN :
       jobs' = [jobs EXCEPT
                  ![j].buffers[k] = IF data THEN "present" ELSE "absent",
                  ![j].failedCount = IF data THEN @ ELSE @ + 1]
  /\ UNCHANGED <<engineVars, releaseVars, backgroundVars, stream, downloadStates, delivered>>

\* Promise.all of the only batch of job j resolves; the rest of the function
\* runs without another await.
JobBatchSettled(j) ==
  /\ jobs[j].pc = "segments"
  /\ \A k \in DOMAIN jobs[j].buffers : jobs[j].buffers[k] /= "pending"
  /\ LET total == Cardinality(DOMAIN jobs[j].buffers)
         valid == {k \in DOMAIN jobs[j].buffers : jobs[j].buffers[k] = "present"}
         progress == <<Report(j, "Segments",
                          Some(CapProgress(RoundPercent(total, total))))>>
         warning == IF jobs[j].failedCount > 0
                    THEN <<Report(j, "Warning", None)>> ELSE <<>>
     IN  IF valid = {}
         THEN /\ jobs' = [jobs EXCEPT ![j].pc = "failed",
                                      ![j].completed = total]
              /\ stream' = stream \o progress \o <<Report(j, "Error", None)>>
         ELSE /\ jobs' = [jobs EXCEPT ![j].pc = "complete",
                                      ![j].completed = total]
              /\ stream' = stream \o progress \o warning
                             \o <<Report(j, "Assembling", Some(96)),
                                  Report(j, "Complete", Some(100))>>
  /\ UNCHANGED <<engineVars, releaseVars, backgroundVars, downloadStates, delivered>>

\* updateProgressUI deletes the entry of the url on these messages.
ClosesState(msg) == msg \in {"Complete", "Error"}

\* popup: the onMessage listener handles the next downloadProgress message.
PopupReceive ==
  /\ delivered < Len(stream)
  /\ delivered' = delivered + 1
  /\ LET request == stream[delivered + 1]
         state == [progress |-> request.prog, message |-> request.msg,
                   active |-> IsSome(request.prog) /\ Get(request.prog) < 100]
         others == DOMAIN downloadStates \ {request.url}
     IN  IF request.tabId /= PopupTab
         THEN downloadStates' = downloadStates
         ELSE IF ClosesState(request.msg)
         THEN downloadStates' = [u \in others |-> downloadStates[u]]
         ELSE downloadStates' =
                [u \in others \cup {request.url} |->
                   IF u = request.url THEN state ELSE downloadStates[u]]
  /\ UNCHANGED <<engineVars, releaseVars, backgroundVars, jobs, stream>>

\* --------------------------------------------------- the download history

\* background.js keeps a download started with chrome.downloads.download in
\* activeDownloads until downloads.onChanged reports its end; a completed
\* download is recorded with saveDownloadRecord.  A record is named by the
\* id of its download; the records stored before are named -1, -2, ...

DownloadIds == 1..MaxDownloads

\* downloadHistory.unshift(record);
\* if (downloadHistory.length > 100) downloadHistory.length = 100
Unshift(history, record) ==
  LET longer == <<record>> \o history
  IN  IF Len(longer) > HISTORY_MAX THEN SubSeq(longer, 1, HISTORY_MAX) ELSE longer

\* The history stored by earlier sessions: n records, newest first.
StoredHistory(n) == [i \in 1..n |-> 0 - i]

HistoryIdle ==
  /\ downloadHistory = <<>>
  /\ saves = [d \in DownloadIds |-> [pc |-> "downloading", local |-> <<>>]]

\* downloads.onChanged with state 'complete' for a tracked download:
\* saveDownloadRecord runs up to its await of chrome.storage.local.get, and
\* the download leaves activeDownloads.
OnChangedComplete(d) ==
  /\ saves[d].pc = "downloading"
  /\ saves' = [saves EXCEPT ![d].pc = "get"]
  /\ UNCHANGED <<engineVars, releaseVars, jobsVars, throttleVars, downloadHistory>>

\* downloads.onChanged with state 'interrupted': no record is saved.
OnChangedInterrupted(d) ==
  /\ saves[d].pc = "downloading"
  /\ saves' = [saves EXCEPT ![d].pc = "interrupted"]
  /\ UNCHANGED <<engineVars, releaseVars, jobsVars, throttleVars, downloadHistory>>

\* chrome.storage.local.get resolves with the stored array: the record is
\* put in front of this copy, the copy is cut and storage.local.set is
\* called with it.
StorageGet(d) ==
  /\ saves[d].pc = "get"
  /\ saves' = [saves EXCEPT ![d] = [pc |-> "set",
                                    local |-> Unshift(downloadHistory, d)]]
  /\ UNCHANGED <<engineVars, releaseVars, jobsVars, throttleVars, downloadHistory>>

\* chrome.storage.local.set stores the array it was given.
StorageSet(d) ==
  /\ saves[d].pc = "set"
  /\ downloadHistory' = saves[d].local
  /\ saves' = [saves EXCEPT ![d] = [pc |-> "saved", local |-> <<>>]]
  /\ UNCHANGED <<engineVars, releaseVars, jobsVars, throttleVars>>

\* ----------------------------------------------------- the request throttle

\* webRequest.onBeforeRequest for a request of the active tab.  A URL is a
\* number; time is the clock now, in ms.

ThrottleStep == THROTTLE_MS \div 2
MaxElapsed == MaxElapses * ThrottleStep

\* The URLs requested: two the map may hold and MaxNewUrls it does not.
RequestUrls ==
  {1, RECENT_URLS_MAX} \cup (RECENT_URLS_MAX + 1)..(RECENT_URLS_MAX + MaxNewUrls)

\* recentUrls.set(url, now)
SetUrl(map, url, time) ==
  [u \in DOMAIN map \cup {url} |-> IF u = url THEN time ELSE map[u]]

\* cleanRecentUrls
cleanRecentUrls(map, time) ==
  IF Cardinality(DOMAIN map) <= RECENT_URLS_MAX THEN map
  ELSE [u \in {v \in DOMAIN map : ~(time - map[v] > THROTTLE_MS * 2)} |-> map[u]]

\* recentUrls.has(url) && now - recentUrls.get(url) < THROTTLE_MS
Throttled(map, url, time) ==
  url \in DOMAIN map /\ time - map[url] < THROTTLE_MS

ThrottleIdle ==
  /\ recentUrls = EmptyMap
  /\ lastRequest = None

\* The listener handles a request for url: a throttled one returns at
\* once, any other is entered in the map and the map is cleaned.
Request(url) ==
  /\ IF Throttled(recentUrls, url, now)
     THEN /\ recentUrls' = recentUrls
          /\ lastRequest' = Some([url |-> url, at |-> now, passed |-> FALSE])
     ELSE /\ recentUrls' = cleanRecentUrls(SetUrl(recentUrls, url, now), now)
          /\ lastRequest' = Some([url |-> url, at |-> now, passed |-> TRUE])
  /\ UNCHANGED <<engineVars, releaseVars, jobsVars, historyVars>>

\* Time passes between two requests.
Elapse ==
  /\ now < MaxElapsed
  /\ now' = now + ThrottleStep
  /\ UNCHANGED <<engineVars, jobsVars, backgroundVars, jobTimer, saver, blobUrl>>

BackgroundIdle == HistoryIdle /\ ThrottleIdle

\* ------------------------------------------------------ specifications

\* The job before its first step.
EngineStart ==
  /\ pc = "idle"
  /\ currentUrl = JobUrl
  /\ parsed = EmptyManifest
  /\ cryptoKey = FALSE
  /\ batchStart = 0
  /\ completed = 0
  /\ failedCount = 0
  /\ buffers = EmptyMap
  /\ outOfOrder = FALSE
  /\ events = <<>>
  /\ blob = None
  /\ handoff = FALSE
  /\ revoked = FALSE
  /\ segPc = EmptyMap
  /\ attempt = EmptyMap
  /\ fetches = EmptyMap
  /\ delays = EmptyMap
  /\ responses = EmptyMap
  /\ keyFetches = 0
  /\ segsAtKey = 0
  /\ ivUsed = EmptyMap
  /\ contentLength = 0
  /\ received = 0
  /\ chunks = <<>>

Init ==
  /\ FlakyNetwork \/ SmallNetwork \/ WideNetwork \/ MasterNetwork
     \/ KeyedNetwork
     \/ BareMasterNetwork \/ DeadNetwork \/ PatchyNetwork \/ DirectNetwork
  /\ EngineStart
  /\ ReleaseIdle
  /\ JobsIdle
  /\ BackgroundIdle

Next ==
  \/ Start
  \/ PlaylistOk
  \/ PlaylistFail
  \/ VariantOk
  \/ VariantFail
  \/ KeyOk
  \/ KeyFail
  \/ ImportKeyOk
  \/ ImportKeyFail
  \/ \E k \in DOMAIN segPc : SegOk(k)
  \/ \E k \in DOMAIN segPc : SegHttpFail(k)
  \/ \E k \in DOMAIN segPc : SegThrow(k)
  \/ \E k \in DOMAIN segPc : SegTimer(k)
  \/ \E k \in DOMAIN segPc : DecryptOk(k)
  \/ \E k \in DOMAIN segPc : DecryptFail(k)
  \/ BatchSettled
  \/ RevokeTimer
  \/ DirectStart
  \/ DirectResponseOk
  \/ DirectResponseFail
  \/ DirectChunk
  \/ DirectDone
  \/ DirectReadFail

Spec == Init /\ [][Next]_vars

\* Every fetch, decrypt call and timer the job waits on settles: a step is
\* taken whenever one is possible.
FairSpec == Spec /\ WF_vars(Next)

\* The job at rest, for the specifications below.
EngineAside ==
  /\ topText = <<>>
  /\ mediaText = <<>>
  /\ lenOffset = 0
  /\ faultBudget = Some(0)
  /\ jobKind = "hls"
  /\ EngineStart

ReleaseInit == EngineAside /\ ReleaseIdle /\ JobsIdle /\ BackgroundIdle

ReleaseNext ==
  \/ Handoff
  \/ JobRevoke
  \/ SaverReceive
  \/ SaverCallback
  \/ SaverRevoke
  \/ DownloadChanged
  \/ Tick

\* The clock advances and a timer that is due fires; nothing obliges the
\* download to start or to complete.
ReleaseSpec ==
  /\ ReleaseInit /\ [][ReleaseNext]_vars
  /\ WF_vars(Tick) /\ WF_vars(JobRevoke) /\ WF_vars(SaverRevoke)

JobsInit == EngineAside /\ ReleaseIdle /\ JobsIdle /\ BackgroundIdle

JobsNext ==
  \/ \E j \in JobIds : StartJob(j)
  \/ \E j \in JobIds : JobPlaylistOk(j)
  \/ \E j \in JobIds : JobPlaylistFail(j)
  \/ \E j \in JobIds : \E k \in DOMAIN jobs[j].buffers : JobSegSettled(j, k)
  \/ \E j \in JobIds : JobBatchSettled(j)
  \/ PopupReceive

JobsSpec == JobsInit /\ [][JobsNext]_vars

\* The job on playlists as written.
TextInit ==
  /\ CaseNetwork \/ GapNetwork \/ KeyTagNetwork \/ BaseNetwork
     \/ FlakyNetwork \/ MasterNetwork \/ DirectNetwork
  /\ EngineStart
  /\ ReleaseIdle
  /\ JobsIdle
  /\ BackgroundIdle

TextSpec == TextInit /\ [][Next]_vars

\* Downloads end while the history holds none, nearly HISTORY_MAX or
\* HISTORY_MAX records.
HistoryInit ==
  /\ EngineAside /\ ReleaseIdle /\ JobsIdle /\ ThrottleIdle
  /\ \E n \in {0, HISTORY_MAX - 1, HISTORY_MAX} :
       downloadHistory = StoredHistory(n)
  /\ saves = [d \in DownloadIds |-> [pc |-> "downloading", local |-> <<>>]]

HistoryNext ==
  \/ \E d \in DownloadIds : OnChangedComplete(d)
  \/ \E d \in DownloadIds : OnChangedInterrupted(d)
  \/ \E d \in DownloadIds : StorageGet(d)
  \/ \E d \in DownloadIds : StorageSet(d)

HistorySpec == HistoryInit /\ [][HistoryNext]_vars

\* Requests arrive while the map holds none, nearly RECENT_URLS_MAX or
\* RECENT_URLS_MAX URLs, all let through at time 0.
ThrottleInit ==
  /\ EngineAside /\ ReleaseIdle /\ JobsIdle /\ HistoryIdle
  /\ \E n \in {0, RECENT_URLS_MAX - 1, RECENT_URLS_MAX} :
       recentUrls = [u \in 1..n |-> 0]
  /\ lastRequest = None

ThrottleNext ==
  \/ \E url \in RequestUrls : Request(url)
  \/ Elapse

ThrottleSpec == ThrottleInit /\ [][ThrottleNext]_vars

\* ------------------------------------------------------------ what is checked

InFlight == {k \in DOMAIN segPc : segPc[k] \in {"fetch", "delay", "decrypt"}}
KindsOf(evs) == [m \in DOMAIN evs |-> evs[m].kind]
HasEvent(kind) == \E m \in DOMAIN events : events[m].kind = kind
CountEvents(kind) == Cardinality({m \in DOMAIN events : events[m].kind = kind})
BlobBytes == IF IsSome(blob) THEN Get(blob) ELSE <<>>
\* the blocks of the blob that come from segment k
BlocksFrom(k) == {b \in DOMAIN BlobBytes : BlobBytes[b].seg = k}
PresentSlots == {k \in DOMAIN buffers : buffers[k].present}
SumLen(f, ks) == SumOver([k \in ks |-> Len(f[k].data)], ks)
SumSegLen(ks) == SumOver([k \in ks |-> SegLen(k)], ks)
NonFinalFailure(r) == r \in {"500", "throw"}

\* C1: the assembled bytes are in ascending segment order: a block of
\* segment i comes before every block of a segment j > i, whatever the order
\* in which the closures of a batch settled.
C1_AscendingOrder ==
  (jobKind = "hls" /\ IsSome(blob)) =>
    /\ \A b1, b2 \in DOMAIN BlobBytes :
         b1 < b2 => BlobBytes[b1].seg <= BlobBytes[b2].seg
    /\ \A k \in PresentSlots : \A b \in DOMAIN buffers[k].data :
         buffers[k].data[b].seg = k

\* C1 witness: a file was assembled from at least two non-empty segments
\* after a segment overtook a lower one of its batch.
C1_Witness ==
  /\ jobKind = "hls"
  /\ IsSome(blob)
  /\ outOfOrder
  /\ \E b1, b2 \in DOMAIN BlobBytes : BlobBytes[b1].seg /= BlobBytes[b2].seg

\* C2: the blob holds, for every present slot, exactly the bytes stored for
\* that segment, once, and nothing for an absent slot; so its length is the
\* sum of the present lengths, and the sum of all the segment lengths when
\* every fetch of an unencrypted playlist succeeded.
C2_ExactContent ==
  (jobKind = "hls" /\ IsSome(blob)) =>
    /\ \A k \in Indices :
         Cardinality(BlocksFrom(k)) =
           IF buffers[k].present THEN Len(buffers[k].data) ELSE 0
    /\ \A k \in Indices :
         buffers[k].present <=>
           (responses[k] /= <<>> /\ responses[k][Len(responses[k])] = "200")
    /\ Len(BlobBytes) = SumLen(buffers, PresentSlots)
    /\ (~cryptoKey /\ failedCount = 0) => Len(BlobBytes) = SumSegLen(Indices)
    /\ (~cryptoKey) => Len(BlobBytes) = SumSegLen(PresentSlots)

\* C2 witness: a file assembled without a segment that has bytes, so that
\* it is shorter than the sum of the segment lengths.
C2_Witness ==
  /\ IsSome(blob)
  /\ Total >= 3
  /\ \E k \in Indices : ~buffers[k].present /\ SegLen(k) > 0
  /\ Len(BlobBytes) < SumSegLen(Indices)

\* C3: never more than CONCURRENCY segment operations (fetch with its
\* retries and backoff waits, decrypt) are in flight.
C3_BoundedFanOut == Cardinality(InFlight) <= CONCURRENCY

\* C3 witness: a playlist longer than one batch with CONCURRENCY operations
\* in flight, one of them waiting in a backoff.
C3_Witness ==
  /\ Total > CONCURRENCY
  /\ Cardinality(InFlight) = CONCURRENCY
  /\ \E k \in InFlight : segPc[k] = "delay"

\* C4: a segment of a later batch is not fetched before every closure of
\* the batches before it has settled, and the progress event of a batch is
\* sent only when all the segments it counts have settled.
C4_Barrier ==
  /\ \A j, k \in DOMAIN segPc :
       (fetches[k] > 0 /\ j < (k \div CONCURRENCY) * CONCURRENCY)
         => segPc[j] = "done"
  /\ \A m \in DOMAIN events :
       events[m].kind = "Segments" =>
         \A k \in DOMAIN segPc : k < events[m].a => segPc[k] = "done"
  /\ CountEvents("Segments") * CONCURRENCY <= batchStart

\* C4 witness: the second batch is being fetched after a segment of the
\* first batch went through a backoff.
C4_Witness ==
  /\ Total > CONCURRENCY
  /\ pc = "segments"
  /\ segPc[CONCURRENCY] = "fetch"
  /\ CountEvents("Segments") = 1
  /\ \E j \in 0..(CONCURRENCY - 1) : Len(delays[j]) > 0

\* C5: no segment is fetched more than MAX_RETRIES + 1 times; a segment
\* that got k - 1 failures other than 404 and then a success was fetched k
\* times with k - 1 backoff delays and yields bytes; and a segment is given
\* up only after a 404 or after MAX_RETRIES + 1 fetches.
C5_AttemptCount ==
  \A k \in DOMAIN segPc :
    LET r == responses[k]
        n == Len(r)
    IN  /\ fetches[k] <= MAX_RETRIES + 1
        /\ (n >= 1 /\ r[n] = "200")
             => /\ \A m \in 1..(n - 1) : NonFinalFailure(r[m])
                /\ fetches[k] = n
                /\ Len(delays[k]) = n - 1
                /\ segPc[k] \in {"decrypt", "done"}
                /\ segPc[k] = "done" => buffers[k].present
                /\ (segPc[k] = "done" /\ ~cryptoKey)
                     => buffers[k].data = RawBytes(parsed.segments[k + 1])
        /\ (segPc[k] = "done" /\ ~buffers[k].present)
             => (r[n] = "404" \/ n = MAX_RETRIES + 1)

\* C5 witness: 500, 500, 200 gave 3 fetches, 2 delays and the bytes.
C5_Witness ==
  \E k \in DOMAIN segPc :
    /\ responses[k] = <<"500", "500", "200">>
    /\ fetches[k] = 3
    /\ Len(delays[k]) = 2
    /\ segPc[k] = "done"
    /\ buffers[k].present

\* C6: a 404 is the last answer a segment gets: the segment is settled as
\* absent at once, with no fetch and no backoff delay after it.
C6_NotFoundIsFinal ==
  \A k \in DOMAIN segPc : \A m \in DOMAIN responses[k] :
    responses[k][m] = "404" =>
      /\ m = Len(responses[k])
      /\ fetches[k] = m
      /\ Len(delays[k]) = m - 1
      /\ segPc[k] = "done"
      /\ ~buffers[k].present

\* C6 witness: a 404 on the first attempt, one fetch, segment absent.
C6_Witness ==
  \E k \in DOMAIN segPc :
    /\ responses[k] = <<"404">>
    /\ fetches[k] = 1
    /\ delays[k] = <<>>
    /\ segPc[k] = "done"

\* C7 (as claimed): after the failed attempt n the fetcher waits
\* RETRY_DELAY_MS * n, except after attempt MAX_RETRIES + 1, which is
\* followed by no delay, for a non-ok status as for a rejected fetch.
C7_BackoffSchedule ==
  \A k \in DOMAIN segPc :
    LET r == responses[k]
        waited == {m \in DOMAIN r : NonFinalFailure(r[m]) /\ m <= MAX_RETRIES}
    IN  /\ \A m \in DOMAIN delays[k] : delays[k][m] = RETRY_DELAY_MS * m
        /\ segPc[k] /= "fetch" => Len(delays[k]) = Cardinality(waited)

\* C8: when the master playlist lists variants, the playlist fetched next is
\* the one of the first variant, in playlist order, among those of greatest
\* bandwidth, and its segments are the ones downloaded.
C8_BestVariant ==
  LET vs == parseM3u8(topText, JobUrl).variants
  IN  (Len(vs) > 0 /\ Len(events) >= 2 /\ events[2].kind /= "Error") =>
        /\ events[2].kind = "Selected"
        /\ \E b \in DOMAIN vs :
             /\ currentUrl = vs[b].url
             /\ events[2].a = RoundKbps(vs[b].bandwidth)
             /\ \A j \in DOMAIN vs :
                  /\ vs[j].bandwidth <= vs[b].bandwidth
                  /\ j < b => vs[j].bandwidth < vs[b].bandwidth
        /\ \A k \in DOMAIN segPc :
             fetches[k] > 0 => parsed.segments[k + 1].dir = currentUrl.dir

\* C8 witness: bandwidths 500000, 1200000, 1200000 with different
\* resolutions: the second entry's playlist is fetched and downloaded.
C8_Witness ==
  LET vs == parseM3u8(topText, JobUrl).variants
  IN  /\ Len(vs) = 3
      /\ vs[1].bandwidth = 500000
      /\ vs[2].bandwidth = 1200000
      /\ vs[3].bandwidth = 1200000
      /\ vs[2].resolution = "unknown"
      /\ vs[3].resolution = "1920x1080"
      /\ currentUrl = vs[2].url
      /\ pc = "complete"


StageRank(p) ==
  CASE p = "idle" -> 0
    [] p = "fetchPlaylist" -> 1
    [] p = "fetchVariant" -> 2
    [] p = "fetchKey" -> 3
    [] p = "importKey" -> 4
    [] p = "segments" -> 5
    [] p = "directFetch" -> 1
    [] p = "directRead" -> 5
    [] OTHER -> 6

EventRank(kind) ==
  CASE kind = "FetchingPlaylist" -> 1
    [] kind = "Selected" -> 2
    [] kind = "Found" -> 3
    [] kind = "FetchingKey" -> 4
    [] kind = "Segments" -> 5
    [] kind = "Warning" -> 6
    [] kind = "Assembling" -> 7
    [] kind = "Complete" -> 8
    [] OTHER -> 9

Terminal == pc \in {"complete", "failed"}
BatchCount == (Total + CONCURRENCY - 1) \div CONCURRENCY

C9_Stages ==
  jobKind = "hls" =>
  \* the events follow the stage order; only batch events repeat
  /\ \A m, n \in DOMAIN events :
       m < n => /\ EventRank(events[m].kind) <= EventRank(events[n].kind)
                /\ EventRank(events[m].kind) = EventRank(events[n].kind)
                     => events[m].kind = "Segments"
  \* the key is fetched at most once, before any segment fetch, and always
  \* when the playlist is encrypted
  /\ keyFetches <= 1
  /\ segsAtKey = 0
  /\ pc \in {"fetchKey", "importKey"} => SegFetches = 0 /\ keyFetches = 1
  /\ SegFetches > 0 => (cryptoKey <=> IsSome(parsed.encryption))
  /\ cryptoKey => keyFetches = 1
  \* the segments are fetched in the segment stage only
  /\ SegFetches > 0 => StageRank(pc) >= 5
  /\ InFlight /= {} => pc = "segments"
  \* assembly only after the last batch has settled
  /\ HasEvent("Assembling") =>
       /\ \A k \in Indices : segPc[k] = "done"
       /\ CountEvents("Segments") = BatchCount
  \* the handoff only after assembly
  /\ handoff => (HasEvent("Assembling") /\ IsSome(blob) /\ pc = "complete")
  /\ pc = "complete" => handoff

\* C9: the job's stages only move forward (playlist, variant playlist, key,
\* segments, then complete or failed, which are final); the key is fetched
\* at most once and before any segment; assembly starts only after the last
\* batch settled and the handoff follows assembly.
C9_ForwardStages ==
  /\ [][/\ StageRank(pc') >= StageRank(pc)
        /\ pc' /= pc => StageRank(pc') > StageRank(pc)
        /\ Terminal => pc' = pc
        /\ keyFetches' >= keyFetches
        /\ Len(events') >= Len(events)
        /\ SubSeq(events', 1, Len(events)) = events]_vars
  /\ []C9_Stages

\* C9 witness: an encrypted job of several segments that went through the
\* key stage and the segment stage and completed.
C9_Witness ==
  /\ pc = "complete"
  /\ keyFetches = 1
  /\ Total >= 2
  /\ KindsOf(events) = <<"FetchingPlaylist", "Found", "FetchingKey",
                         "Segments", "Assembling", "Complete">>

\* C10: a failed job has sent exactly one "Error" event, with no percent,
\* as its last event; it has sent no "Complete" event and handed off
\* nothing; nothing of it is left running; and an "Error" event is sent
\* only by a job that failed.
C10_FatalError ==
  /\ pc = "failed" =>
       /\ events /= <<>>
       /\ events[Len(events)].kind = "Error"
       /\ events[Len(events)].prog = None
       /\ CountEvents("Error") = 1
       /\ ~HasEvent("Complete")
       /\ ~handoff
       /\ blob = None
       /\ InFlight = {}
       /\ ~ENABLED Next
  /\ HasEvent("Error") => pc = "failed"
  /\ (jobKind = "hls" /\ pc = "complete") => (Total > 0 /\ PresentSlots /= {} /\ Len(BlobBytes) > 0)

\* C10 witness: a job whose only segment is present but empty failed with
\* the empty-assembly error after the "Assembling" event.
C10_Witness ==
  /\ pc = "failed"
  /\ events[Len(events)].text = "Assembled file is empty"
  /\ HasEvent("Assembling")
  /\ PresentSlots /= {}

\* the text of the job's "Error" event, "" when there is none
ErrorText ==
  IF events /= <<>> /\ events[Len(events)].kind = "Error"
  THEN events[Len(events)].text ELSE ""
AllAbsent ==
  /\ DOMAIN segPc /= {}
  /\ \A k \in DOMAIN segPc : segPc[k] = "done" /\ ~buffers[k].present

\* C11: when every segment of a job ended absent, the job went through all
\* its batches (every segment was fetched, one progress event per batch),
\* then failed with the all-segments-failed error, with no blob made and
\* nothing handed off; and that error is reported in no other case.
C11_AllSegmentsFailed ==
  /\ (AllAbsent /\ pc /= "segments") =>
        /\ pc = "failed"
        /\ ErrorText = "All segments failed to download"
        /\ CountEvents("Segments") = BatchCount
        /\ \A k \in Indices : fetches[k] >= 1
        /\ failedCount = Total
        /\ PresentSlots = {}
        /\ blob = None /\ ~handoff
        /\ ~HasEvent("Assembling")
  /\ ErrorText = "All segments failed to download" => AllAbsent
  /\ (pc = "segments" /\ PresentSlots = {}) => ~HasEvent("Error")

\* C11 witness: more than one batch of segments, each answered 404 once,
\* and the job failed after both batches.
C11_Witness ==
  /\ Total > CONCURRENCY
  /\ pc = "failed"
  /\ DOMAIN responses = Indices
  /\ \A k \in Indices : responses[k] = <<"404">>
  /\ ErrorText = "All segments failed to download"
  /\ CountEvents("Segments") = 2

\* The segment list the job ends up with when its playlist fetches succeed:
\* the one of the best variant's playlist for a master playlist with
\* variants, the playlist's own otherwise.
FinalSegments ==
  LET p == parseM3u8(topText, JobUrl)
  IN  IF p.isMaster /\ Len(p.variants) > 0
      THEN parseM3u8(mediaText, SelectBest(p.variants).url).segments
      ELSE p.segments

\* past the segment-count check of line 165
PastSegmentCheck ==
  \/ pc \in {"fetchKey", "importKey", "segments", "complete"}
  \/ keyFetches > 0
  \/ DOMAIN segPc /= {}
  \/ HasEvent("Found") \/ HasEvent("FetchingKey")

C12_NothingFetched ==
  jobKind = "hls" =>
    /\ PastSegmentCheck => Len(FinalSegments) > 0
    /\ ErrorText = "No segments found in playlist"
         => (pc = "failed" /\ Len(FinalSegments) = 0 /\ ~PastSegmentCheck)

\* C12: a job whose final segment list is empty never gets past the
\* segment-count check: the step that receives the last playlist fails it
\* with the no-segments error, and it fetches no key and no segment; this
\* holds for an empty media playlist with a key tag, for a variant playlist
\* without segments and for a master playlist without any variant URL.
C12_EmptyManifest ==
  /\ [][(/\ \/ (pc = "fetchPlaylist" /\ PlaylistOk /\ pc' /= "fetchVariant")
            \/ (pc = "fetchVariant" /\ VariantOk)
         /\ Len(parsed'.segments) = 0)
        => /\ pc' = "failed"
           /\ ErrorText' = "No segments found in playlist"
           /\ Len(FinalSegments) = 0
           /\ keyFetches' = 0
           /\ SegFetches' = 0]_vars
  /\ []C12_NothingFetched

\* C12 witness: a master playlist with stream-info tags and no variant
\* failed with the no-segments error.
C12_Witness ==
  /\ pc = "failed"
  /\ ErrorText = "No segments found in playlist"
  /\ parsed.isMaster /\ parsed.variants = <<>>
  /\ keyFetches = 0 /\ SegFetches = 0

FetchFailureTexts ==
  {"Playlist fetch failed: 500", "Variant playlist fetch failed: 500",
   "Key fetch failed: 500", "Failed to fetch"}

\* C13: a playlist, variant playlist or key fetch that is answered with a
\* non-ok status (or rejects) fails the job at once: the error names the
\* fetch, each of the three is made at most once in a job, no segment
\* closure exists and no segment was fetched, and nothing runs afterwards.
C13_FatalFetch ==
  jobKind = "hls" =>
    /\ CountEvents("FetchingPlaylist") <= 1
    /\ CountEvents("Selected") <= 1
    /\ keyFetches <= 1
    /\ ErrorText \in FetchFailureTexts =>
         /\ pc = "failed"
         /\ SegFetches = 0
         /\ DOMAIN segPc = {}
         /\ ~cryptoKey
         /\ blob = None /\ ~handoff
         /\ ~ENABLED Next
    /\ (pc = "failed" /\ DOMAIN segPc = {} /\ Len(FinalSegments) > 0)
         => ErrorText \in FetchFailureTexts \cup {"Invalid key length"}

\* C13 witness: the key of an encrypted playlist of several segments was
\* answered 500: one key fetch, no segment fetch, job failed.
C13_Witness ==
  /\ pc = "failed"
  /\ ErrorText = "Key fetch failed: 500"
  /\ Total >= 2
  /\ keyFetches = 1
  /\ SegFetches = 0

AbsentSlots == {k \in DOMAIN segPc : segPc[k] = "done" /\ ~buffers[k].present}
NonEmptySlots == {k \in PresentSlots : Len(buffers[k].data) > 0}

\* C14: a segment that ended absent is only counted: while segments are
\* being fetched no error is reported, the job leaves the segment stage
\* only after every segment of every batch was fetched, and if then a
\* present segment has bytes the job is complete, with a blob handed off
\* and a warning that counts the absent segments; it fails after the
\* segment stage only when no present segment has bytes.
C14_AbsentNotFatal ==
  /\ failedCount = Cardinality(AbsentSlots)
  /\ pc = "segments" => ~HasEvent("Error")
  /\ (DOMAIN segPc /= {} /\ pc /= "segments") =>
        /\ \A k \in Indices : fetches[k] >= 1 /\ segPc[k] = "done"
        /\ CountEvents("Segments") = BatchCount
        /\ IF NonEmptySlots /= {}
           THEN /\ pc = "complete"
                /\ handoff /\ IsSome(blob) /\ Len(BlobBytes) > 0
                /\ HasEvent("Complete") /\ ~HasEvent("Error")
                /\ failedCount > 0 <=> HasEvent("Warning")
                /\ \A m \in DOMAIN events :
                     events[m].kind = "Warning" =>
                       (events[m].a = failedCount /\ events[m].b = Total)
           ELSE pc = "failed"

\* C14 witness: every segment of the first batch was answered 404, the
\* only segment with bytes is in the second batch, and the job completed.
C14_Witness ==
  /\ pc = "complete"
  /\ Total > CONCURRENCY
  /\ failedCount = Total - 1
  /\ PresentSlots = {Total - 1}
  /\ Len(BlobBytes) > 0
  /\ handoff

\* the bytes of the present slots below k
OffsetOf(k) == SumLen(buffers, {j \in PresentSlots : j < k})
Ciphertext(k) == RawBytes(parsed.segments[k + 1])

C15_Slots ==
  /\ cryptoKey =>
        \A k \in PresentSlots :
          /\ buffers[k].data \in {Ciphertext(k), decryptSegment(Ciphertext(k))}
          /\ ~CanDecrypt(Ciphertext(k)) => buffers[k].data = Ciphertext(k)
  /\ (jobKind = "hls" /\ IsSome(blob)) =>
        \A k \in PresentSlots :
          SubSeq(BlobBytes, OffsetOf(k) + 1, OffsetOf(k) + Len(buffers[k].data))
            = buffers[k].data

\* C15: the step in which the decryption of segment k fails stores the
\* fetched ciphertext into slot k, leaves failedCount alone, reports nothing
\* and keeps the job in its segment stage; and the blob holds the bytes of
\* every present slot, ciphertext or plaintext, at the slot's place.
C15_CiphertextFallback ==
  /\ [][\A k \in DOMAIN segPc :
          (segPc[k] = "decrypt" /\ DecryptFail(k)) =>
            /\ buffers'[k] = Filled(Ciphertext(k))
            /\ \A j \in DOMAIN segPc \ {k} : buffers'[j] = buffers[j]
            /\ failedCount' = failedCount
            /\ pc' = "segments"
            /\ events' = events]_vars
  /\ []C15_Slots

\* C15 witness: the decryption of segment 0 failed and that of segment 1
\* succeeded: the job completed without a failed segment, and the blob is
\* the ciphertext of segment 0 followed by the plaintext of segment 1.
C15_Witness ==
  /\ pc = "complete"
  /\ cryptoKey
  /\ failedCount = 0
  /\ ~HasEvent("Warning")
  /\ buffers[0].data = Ciphertext(0) /\ Len(Ciphertext(0)) > 0
  /\ Len(BlobBytes) >= 2
  /\ BlobBytes[1] = [seg |-> 0, plain |-> FALSE]
  /\ BlobBytes[Len(BlobBytes)] = [seg |-> 1, plain |-> TRUE]

\* the 32-bit number held, most significant byte first, in the last four
\* bytes of iv
TrailingNumber(iv) ==
  ((iv[13] * 256 + iv[14]) * 256 + iv[15]) * 256 + iv[16]
IsBytes16(iv) == DOMAIN iv = 1..16 /\ \A b \in 1..16 : iv[b] \in 0..255
ExplicitIV == IsSome(parsed.encryption) /\ IsSome(Get(parsed.encryption).iv)
\* the digits of an IV attribute written as 32 hexadecimal digits, with or
\* without 0x in front
WellFormedDigits(str) ==
  IF Len(str) = 34 THEN SubSeq(str, 3, 34) ELSE str

\* C16: decryptSegment is called once for every fetched segment of an
\* encrypted job, with an IV of 16 bytes.  With an IV attribute in the key
\* tag all the segments get the same IV, whose byte b is the value of the
\* digits 2b-1 and 2b of the attribute; without one, segment i of the whole
\* list gets 12 zero bytes followed by mediaSequence + i, most significant
\* byte first.
C16_SegmentIV ==
  /\ \A k \in DOMAIN segPc :
       (cryptoKey /\ segPc[k] \in {"decrypt", "done"} /\ responses[k] /= <<>>
          /\ responses[k][Len(responses[k])] = "200") => k \in DOMAIN ivUsed
  /\ \A k \in DOMAIN ivUsed :
       /\ IsBytes16(ivUsed[k])
       /\ IF ExplicitIV
          THEN LET str == Get(Get(parsed.encryption).iv)
               IN  /\ \A j \in DOMAIN ivUsed : ivUsed[j] = ivUsed[k]
                   /\ Len(str) \in {32, 34} =>
                        \A b \in 1..16 :
                          ivUsed[k][b] = 16 * WellFormedDigits(str)[2 * b - 1]
                                           + WellFormedDigits(str)[2 * b]
          ELSE /\ \A b \in 1..12 : ivUsed[k][b] = 0
               /\ TrailingNumber(ivUsed[k]) = parsed.mediaSequence + k

\* C16 witness: mediaSequence 5 and no IV attribute: segment 3 was
\* decrypted with 12 zero bytes and 0, 0, 0, 8, and segment CONCURRENCY, the
\* first of the second batch, with 0, 0, 0, 5 + CONCURRENCY.
C16_Witness ==
  /\ parsed.mediaSequence = 5
  /\ ~ExplicitIV
  /\ 3 \in DOMAIN ivUsed /\ CONCURRENCY \in DOMAIN ivUsed
  /\ ivUsed[3] = <<0, 0, 0, 0, 0, 0, 0, 0, 0, 0, 0, 0, 0, 0, 0, 8>>
  /\ SubSeq(ivUsed[CONCURRENCY], 13, 16) = <<0, 0, 0, 5 + CONCURRENCY>>

\* C17 (as claimed): every progress event carries no percent or an integer
\* percent from 0 to 100, on the segmented and on the direct path.
C17_PercentRange ==
  \A m \in DOMAIN events :
    events[m].prog = None \/ Get(events[m].prog) \in 0..100

TerminalReported ==
  /\ Terminal
  /\ events /= <<>>
  /\ \/ pc = "complete" /\ HasEvent("Complete")
     \/ pc = "failed" /\ events[Len(events)].kind = "Error"

\* C18: under FairSpec every job reaches "complete" or "failed" and has
\* then sent its "Complete" or "Error" event; a job never returns to an
\* earlier stage, its playlist is fetched once, and a terminal job stays
\* as it is.
C18_Terminates ==
  /\ <>TerminalReported
  /\ [][/\ StageRank(pc') >= StageRank(pc)
        /\ Terminal => (pc' = pc /\ events' = events)
        /\ CountEvents("FetchingPlaylist")' <= 1]_vars

\* C18 witness: a job ended after a segment used all its MAX_RETRIES + 1
\* fetches and all its backoff timers.
C18_Witness ==
  /\ TerminalReported
  /\ \E k \in DOMAIN segPc :
       /\ fetches[k] = MAX_RETRIES + 1
       /\ Len(delays[k]) = MAX_RETRIES + 1

\* ---- release of the blob URL (ReleaseSpec)

HandoffAt == Get(jobTimer.armedAt)
ReleasedAt == Get(blobUrl.at)
Acknowledged == saver.status = "complete"

\* C19, as stated: after a successful assembly the blob URL is revoked once
\* 30000 ms have passed since the handoff, whether or not the download was
\* acknowledged, and no component revokes it before that.
C19_NoEarlyRelease ==
  /\ blobUrl.revoked =>
        (blobUrl.by = "job" /\ ReleasedAt - HandoffAt >= REVOKE_DELAY_MS)
  /\ (jobTimer.pc /= "assembled" /\ now - HandoffAt > REVOKE_DELAY_MS)
        => blobUrl.revoked

\* C19, amended: after the handoff the job's own timer fires, not before
\* 30000 ms have passed and whether or not the download was acknowledged,
\* and the blob URL is revoked from then on.  The only earlier revocation
\* is that of the handler of the handoff message, not before 5000 ms have
\* passed since the callback of chrome.downloads.download, which itself
\* follows the handoff.
C19_GraceDelay ==
  /\ [](jobTimer.pc = "fired" =>
          (blobUrl.revoked /\ now - HandoffAt >= REVOKE_DELAY_MS))
  /\ [](blobUrl.revoked =>
          \/ blobUrl.by = "job" /\ ReleasedAt - HandoffAt >= REVOKE_DELAY_MS
          \/ /\ blobUrl.by = "background"
             /\ Get(saver.armedAt) >= HandoffAt
             /\ ReleasedAt - Get(saver.armedAt) >= BG_REVOKE_DELAY_MS)
  /\ (jobTimer.pc = "waiting") ~> (jobTimer.pc = "fired")

\* The job's timer has revoked the blob URL of a download that was never
\* acknowledged.
C19_Witness ==
  /\ jobTimer.pc = "fired"
  /\ blobUrl.revoked /\ blobUrl.by = "job"
  /\ ReleasedAt - HandoffAt = REVOKE_DELAY_MS
  /\ ~Acknowledged

\* ---- concurrent jobs (JobsSpec)

Absent(j) == {k \in DOMAIN jobs[j].buffers : jobs[j].buffers[k] = "absent"}
\* Two messages a consumer cannot tell apart by their addressing.
SameStream(a, b) == a.tabId = b.tabId /\ a.url = b.url

\* C20, as stated: the counters and the status of a job follow from its own
\* results array alone, and the progress messages of one stream, told apart
\* by tabId and url, all come from one job, also when two jobs run for the
\* same URL and tab.
C20_NoSharedState ==
  /\ \A j \in JobIds :
        /\ jobs[j].failedCount = Cardinality(Absent(j))
        /\ jobs[j].completed \in {0, Cardinality(DOMAIN jobs[j].buffers)}
        /\ jobs[j].pc = "complete" =>
              \E k \in DOMAIN jobs[j].buffers : jobs[j].buffers[k] = "present"
  /\ \A a, b \in DOMAIN stream :
        SameStream(stream[a], stream[b]) => stream[a].job = stream[b].job

\* ---- playlists as written (TextSpec)

\* The playlist the job parsed first.
TopManifest == parseM3u8(topText, JobUrl)
PlaylistFailed ==
  /\ pc = "failed" /\ Len(events) = 2
  /\ ErrorText /= "No segments found in playlist"
TopParsed ==
  jobKind = "hls" /\ pc \notin {"idle", "fetchPlaylist"} /\ ~PlaylistFailed

\* C21, as stated: the playlist a job parsed yields the same manifest as the
\* playlist with its tag names and METHOD values in upper case.
C21_CaseInsensitive ==
  TopParsed => TopManifest = parseM3u8(UpperText(topText), JobUrl)

\* The first line after the stream-info tag at line i that is neither blank
\* nor a comment, when only blank and comment lines stand in between: its
\* index, or 0.
IsGapLine(line) == line.tag \in {"", "#"}
NextUrlLine(text, i) ==
  LET found == {j \in (i + 1)..Len(text) :
                  /\ text[j].tag = "uri"
                  /\ \A m \in (i + 1)..(j - 1) : IsGapLine(text[m])}
  IN  IF found = {} THEN 0 ELSE CHOOSE j \in found : TRUE
InSeq(x, seq) == \E m \in DOMAIN seq : seq[m] = x

\* C22, as stated: for every stream-info tag of the playlist a job parsed,
\* the URL line that follows it, directly or after blank and comment lines,
\* is recorded as a variant with the bandwidth of the tag and is not among
\* the segments.
C22_VariantUrlConsumed ==
  TopParsed =>
    \A i \in DOMAIN topText :
      (topText[i].tag = "#EXT-X-STREAM-INF" /\ NextUrlLine(topText, i) > 0) =>
        LET url == ResolveUrl(topText[NextUrlLine(topText, i)].ref, JobUrl)
        IN  /\ \E v \in DOMAIN TopManifest.variants :
                 /\ TopManifest.variants[v].url = url
                 /\ Some(TopManifest.variants[v].bandwidth) = topText[i].bandwidth
            /\ ~InSeq(url, TopManifest.segments)

\* The key tags of a playlist, read off the text: the method of a tag, the
\* tags that set or clear the encryption, and the last of them (or 0).
MethodOf(line) == IF IsSome(line.method) THEN Get(line.method) ELSE "NONE"
IsKeyTag(line) == line.tag = "#EXT-X-KEY"
SetsKey(line) == IsKeyTag(line) /\ MethodOf(line) = "AES-128" /\ IsSome(line.uri)
ClearsKey(line) == IsKeyTag(line) /\ MethodOf(line) = "NONE"
LastOf(indices) ==
  IF indices = {} THEN 0 ELSE CHOOSE i \in indices : \A j \in indices : j <= i
LastDecisive(text) ==
  LastOf({i \in DOMAIN text : SetsKey(text[i]) \/ ClearsKey(text[i])})
LastKeyTag(text) == LastOf({i \in DOMAIN text : IsKeyTag(text[i])})
ExpectedEncryption(text, baseUrl) ==
  LET last == LastDecisive(text)
  IN  IF last = 0 \/ ClearsKey(text[last]) THEN None
      ELSE Some([method |-> "AES-128",
                 keyUrl |-> ResolveUrl(Get(text[last].uri), baseUrl),
                 iv |-> text[last].iv])
GotData(k) == responses[k] /= <<>> /\ responses[k][Len(responses[k])] = "200"

\* C23: the encryption of the manifest a job parsed is the one set or
\* cleared by the last key tag with METHOD=NONE or with METHOD=AES-128 and a
\* URI; when it is absent the job fetches no key and decrypts no segment,
\* when it is present and there are segments the job fetches the key once and
\* passes every segment it got, whatever its place among the tags, to the
\* decryption.
C23_LastKeyTagWins ==
  TopParsed =>
    /\ TopManifest.encryption = ExpectedEncryption(topText, JobUrl)
    /\ ~TopManifest.isMaster =>
         /\ keyFetches = (IF IsSome(parsed.encryption) /\ ~NoSegments(parsed)
                          THEN 1 ELSE 0)
         /\ cryptoKey => IsSome(parsed.encryption)
         /\ pc \in {"segments", "complete"} =>
              /\ cryptoKey = IsSome(parsed.encryption)
              /\ \A k \in DOMAIN segPc :
                   (k \in DOMAIN ivUsed) = (cryptoKey /\ GotData(k))

\* C23 witness: an AES-128 key tag cleared by a later NONE tag, the job
\* complete without a key; and a NONE tag followed by an AES-128 key tag,
\* the job complete with both segments, before and after the tags,
\* decrypted.
C23_Witness ==
  /\ pc = "complete"
  /\ Len(topText) = 4
  /\ \/ /\ SetsKey(topText[2]) /\ ClearsKey(topText[3])
        /\ keyFetches = 0 /\ DOMAIN ivUsed = {}
     \/ /\ ClearsKey(topText[2]) /\ SetsKey(topText[3])
        /\ keyFetches = 1 /\ DOMAIN ivUsed = {0, 1}

\* C24, as stated: when the last key tag of the playlist a job parsed has a
\* method other than NONE and AES-128, the job fetches no key and decrypts
\* no segment.
C24_UnknownMethodUnencrypted ==
  (TopParsed /\ LastKeyTag(topText) > 0
     /\ ToUpperCase(MethodOf(topText[LastKeyTag(topText)]))
          \notin {"NONE", "AES-128"}) =>
    /\ TopManifest.encryption = None
    /\ keyFetches = 0
    /\ ~cryptoKey
    /\ DOMAIN ivUsed = {}

\* The references of the URL lines and key tags of a playlist, in order.
IsUrlLine(line) == line.tag = "uri"
UrlRefs(text) ==
  LET urlLines == SelectSeq(text, IsUrlLine)
  IN  [m \in DOMAIN urlLines |-> urlLines[m].ref]
\* The job has parsed the playlist of the variant it selected.
VariantParsed ==
  /\ TopParsed /\ TopManifest.isMaster /\ Len(TopManifest.variants) > 0
  /\ pc /= "fetchVariant" /\ ~parsed.isMaster

\* C27: the variant URLs of a master playlist are its references resolved
\* against the job's URL; once the selected variant's playlist is parsed,
\* its segment URLs and its key URL are its references resolved against
\* the URL of that variant.
C27_BaseUrl ==
  /\ (TopParsed /\ TopManifest.isMaster) =>
        \A v \in DOMAIN TopManifest.variants :
          \E m \in DOMAIN UrlRefs(topText) :
            TopManifest.variants[v].url = ResolveUrl(UrlRefs(topText)[m], JobUrl)
  /\ VariantParsed =>
        /\ currentUrl = SelectBest(TopManifest.variants).url
        /\ parsed.segments =
             [m \in DOMAIN UrlRefs(mediaText) |->
                ResolveUrl(UrlRefs(mediaText)[m], currentUrl)]
        /\ IsSome(parsed.encryption) =>
             Get(parsed.encryption).keyUrl.dir = currentUrl.dir

\* C27 witness: the best variant is on another host than the master; its
\* relative segment and its key are on that host, its absolute segment
\* where it says, and the job is complete; the other variant, given by a
\* relative reference, is on the master's host.
C27_Witness ==
  /\ VariantParsed /\ pc = "complete"
  /\ currentUrl.dir = <<"cdn", 2>> /\ JobUrl.dir = <<"origin">>
  /\ Len(parsed.segments) = 2 /\ IsSome(parsed.encryption)
  /\ parsed.segments[1].dir = <<"cdn", 2>>
  /\ parsed.segments[2].dir = <<"media">>
  /\ Get(parsed.encryption).keyUrl.dir = <<"cdn", 2>>
  /\ \E v \in DOMAIN TopManifest.variants :
       TopManifest.variants[v].url.dir = <<"origin">>

\* ------------------------------------------------------ the slots of a job

\* The closure of segment k stores into buffers in this step.
WritesSlot(k) == SegOk(k) \/ DecryptOk(k) \/ DecryptFail(k)

\* C25: once the job has made its buffers array, the array has one slot per
\* segment of the parsed playlist and keeps that length in every step; a
\* slot that holds bytes keeps them unchanged in every later step, and a
\* slot changes only in a step in which the closure of its own segment
\* stores into it.
C25_SlotsWriteOnce ==
  [][(pc = "segments" \/ DOMAIN buffers /= {}) =>
        /\ DOMAIN buffers = Indices
        /\ DOMAIN buffers' = DOMAIN buffers
        /\ Len(parsed'.segments) = Total
        /\ \A k \in DOMAIN buffers :
             /\ buffers[k].present => buffers'[k] = buffers[k]
             /\ buffers'[k] /= buffers[k] =>
                  /\ WritesSlot(k)
                  /\ buffers'[k].present
                  /\ \A j \in DOMAIN buffers \ {k} : buffers'[j] = buffers[j]]_vars

\* C25 witness: a job of more than one batch is complete; its closures
\* settled out of index order, some slots hold bytes and one stayed absent.
C25_Witness ==
  /\ pc = "complete" /\ jobKind = "hls"
  /\ Total > CONCURRENCY
  /\ DOMAIN buffers = Indices
  /\ outOfOrder
  /\ ValidCount(buffers) = Total - 1

\* --------------------------------------------------- the events of a window

\* The progress events of the windows, in the order sent.
WindowEvents == SelectSeq(events, LAMBDA e : e.kind = "Segments")

\* Windows whose Promise.all has resolved.
WindowsSettled == batchStart \div CONCURRENCY

\* p is 100 * done / total rounded to the nearest integer, halves upwards.
IsRoundedPercent(p, done, total) ==
  /\ 2 * (100 * done - p * total) <= total
  /\ 2 * (p * total - 100 * done) < total

\* C26: a job has sent as many window progress events as windows of it
\* have settled; the event of window w is sent with every segment of the
\* window settled, reports min(w * CONCURRENCY, total) segments of total,
\* failed ones included, and carries the rounded percent of that count, or
\* 95 where the rounded percent is above 95.
C26_WindowProgress ==
  /\ Len(WindowEvents) = WindowsSettled
  /\ WindowsSettled > 0 => completed = Min(batchStart, Total)
  /\ \A w \in DOMAIN WindowEvents :
       LET e == WindowEvents[w]
           windowEnd == w * CONCURRENCY
           done == IF windowEnd < Total THEN windowEnd ELSE Total
       IN  /\ e.a = done /\ e.b = Total
           /\ \A k \in Indices : k < done => segPc[k] = "done"
           /\ IsSome(e.prog)
           /\ Get(e.prog) <= 95
           /\ \E p \in 0..100 :
                /\ IsRoundedPercent(p, done, Total)
                /\ Get(e.prog) = IF p > 95 THEN 95 ELSE p

\* C26 witness: a job of two windows has settled both with one segment
\* failed; it sent two window events, the first below the cap and the last,
\* for all the segments, at 95.
C26_Witness ==
  /\ jobKind = "hls" /\ Terminal
  /\ Total > CONCURRENCY
  /\ failedCount = 1
  /\ Len(WindowEvents) = 2
  /\ WindowEvents[1].a = CONCURRENCY /\ Get(WindowEvents[1].prog) < 95
  /\ WindowEvents[2].a = Total /\ WindowEvents[2].prog = Some(95)

\* ------------------------------------------------------------ the artifact

\* The job has handed a blob URL to the background page.
HandedOff == handoff /\ IsSome(blob)

\* C28 (as claimed): a blob handed to the background page has at least one
\* byte, and a job that reports "Complete" has handed off such a blob, on
\* the segmented and on the direct path.
C28_NonEmptyArtifact ==
  /\ HandedOff => Len(Get(blob)) > 0
  /\ HasEvent("Complete") => HandedOff /\ Len(Get(blob)) > 0

\* ------------------------------------------------------- the failed segments

\* Segments whose closure has returned without storing into its slot.
SettledAbsent == {k \in Indices : segPc[k] = "done" /\ ~buffers[k].present}

\* Promise.all of the last window of the job has resolved.
LastWindowSettled ==
  /\ jobKind = "hls" /\ Terminal
  /\ Total > 0 /\ batchStart >= Total
  /\ DOMAIN buffers = Indices

\* The warnings the job has sent.
Warnings == SelectSeq(events, LAMBDA e : e.kind = "Warning")

\* C29: while the segments are fetched failedCount is the number of closures
\* that returned with their slot left absent; when the last window has
\* settled it is the number of absent slots and, with the present slots,
\* adds up to the segment count. The job sends the warning once, with
\* failedCount of total, when some but not all segments failed, and does
\* not send it otherwise.
C29_FailedCount ==
  /\ (pc = "segments" \/ LastWindowSettled) =>
        failedCount = Cardinality(SettledAbsent)
  /\ LastWindowSettled =>
        /\ failedCount = Cardinality({k \in Indices : ~buffers[k].present})
        /\ failedCount + ValidCount(buffers) = Total
        /\ IF 0 < failedCount /\ failedCount < Total
           THEN Warnings = <<Event("Warning", "", failedCount, Total, None)>>
           ELSE Warnings = <<>>
  /\ ~LastWindowSettled => Warnings = <<>>

\* C29 witness: a job of two windows has settled its last window with one
\* closure failed, settled ahead of a lower segment, and has sent the
\* warning for 1 of its segments.
C29_Witness ==
  /\ LastWindowSettled
  /\ Total > CONCURRENCY
  /\ outOfOrder
  /\ failedCount = 1
  /\ Warnings = <<Event("Warning", "", 1, Total, None)>>

\* ------------------------------------------------------ the percents of a job

\* C30 (as claimed): of two progress events of a job that carry a percent,
\* the later one carries a percent at least as high as the earlier one, on
\* the segmented and on the direct path.
C30_PercentsNeverDecrease ==
  \A m, n \in DOMAIN events :
    (m < n /\ IsSome(events[m].prog) /\ IsSome(events[n].prog)) =>
       Get(events[m].prog) <= Get(events[n].prog)

\* ------------------------------------------------------ the download history

\* The records of the history, as a set.
Recorded == {downloadHistory[i] : i \in DOMAIN downloadHistory}

\* The save of the record of download d has finished.
Saved(d) == saves[d].pc = "saved"

\* C31 (as claimed): the history never holds more than HISTORY_MAX records,
\* and every download whose completion was handled and whose save has
\* finished has its record in the history, whatever other saves ran at the
\* same time.
C31_EveryCompletionRecorded ==
  /\ Len(downloadHistory) <= HISTORY_MAX
  /\ \A d \in DownloadIds : Saved(d) => d \in Recorded

\* What holds of the history in every interleaving: it has at most
\* HISTORY_MAX records, no record twice, the records saved now before the
\* stored ones, and the stored ones in their order.
HistoryNewestFirst ==
  /\ Len(downloadHistory) <= HISTORY_MAX
  /\ \A i, j \in DOMAIN downloadHistory :
       i < j => /\ downloadHistory[i] /= downloadHistory[j]
                /\ downloadHistory[i] < 0 => downloadHistory[j] < downloadHistory[i]

\* ------------------------------------------------------ the request throttle

\* C32 (as claimed): once a request has been handled, recentUrls holds at
\* most RECENT_URLS_MAX URLs, whatever the URLs requested and the times of
\* the requests.
C32_ThrottleBounded == Cardinality(DOMAIN recentUrls) <= RECENT_URLS_MAX

\* What holds of a request in every sequence: a throttled request leaves
\* the map as it is, and no request, throttled or let through, ends or
\* changes the throttle of another URL.
ThrottleOfOthersKept ==
  [][\A url \in RequestUrls : Request(url) =>
        /\ Throttled(recentUrls, url, now) => recentUrls' = recentUrls
        /\ \A u \in DOMAIN recentUrls \ {url} :
             Throttled(recentUrls, u, now) =>
               u \in DOMAIN recentUrls' /\ recentUrls'[u] = recentUrls[u]]_vars

====
